---- MODULE Spec2Model ----
(***************************************************************************)
(* Model of the market-data order book engine (backend-sse/src/           *)
(* order_book.rs): one OrderBook with its order index, its two price      *)
(* ladders and its sequence counter, the three mutating operations and    *)
(* the two depth projections (Spec); and of the two stream managers       *)
(* (backend/src/stream_manager.rs, backend-sse/src/stream_manager.rs):    *)
(* the registry of books, subscriptions and client channels, the calls    *)
(* that connection tasks make on it, run one at a time (SpecSequential)   *)
(* or interleaved with each other and with the simulation and heartbeat   *)
(* tasks (SpecConcurrent).                                                 *)
(* One connection of each server runs on the manager of its backend: the *)
(* request handler and the event stream of backend-sse/src/               *)
(* sse_handler.rs (SpecSseConnection), the incoming and the outgoing      *)
(* task of backend/src/websocket_handler.rs (SpecWsConnection).           *)
(* The synthetic activity generator of the book (simulate_activity) runs  *)
(* on a book of its own in SpecGenerator and, with a random number        *)
(* generator that does not recurse forever, in SpecGeneratorFair.         *)
(*                                                                         *)
(* Representation choices:                                                 *)
(*  - an order id (a String in the code) is a number of 1..MaxOrders;     *)
(*  - a price (an f64 rounded to two decimals by every producer of the    *)
(*    code) is its number of ticks, 1..MaxPrice; NaN never enters the     *)
(*    book (f64::max and the rounding of the generator exclude it), so    *)
(*    OrderedFloat's order is the order of the integers;                  *)
(*  - HashMap<String, Order> and BTreeMap<OrderedFloat, Vec<String>> are  *)
(*    functions whose DOMAIN is the key set; a Vec is a sequence;         *)
(*  - Order.timestamp, Order.original_quantity and the derived age_ms     *)
(*    are left out of the Order record: no operation branches on them;    *)
(*  - order ids are interchangeable names, so an AddOrder of an id that   *)
(*    is not resting takes the least such id (the generator of the code   *)
(*    mints a new id for every new order); an AddOrder of a resting id,   *)
(*    an UpdateOrder and a RemoveOrder take any id.                       *)
(***************************************************************************)
EXTENDS Integers, Sequences, FiniteSets, TLC

\* ------------------------------------------------------------ bounds
MaxOrders == 4
MaxPrice == 2
MaxQty == 2
MaxLevels == 2

\* half the width of a u32, as a factor
U32Half == 65536

\* the greatest max_levels whose triple is a u32: (2^32 - 1) / 3
ThirdOfU32Max == ((U32Half - 1) \div 3) * U32Half + (U32Half - 1) \div 3

\* the values of max_levels drawn: small ones, and the first ones past the
\* greatest whose triple is a u32
MboLevels == (0..MaxLevels) \cup {ThirdOfU32Max, ThirdOfU32Max + 1, ThirdOfU32Max + 2}
MaxSeq == 4

OrderIds == 1..MaxOrders
Prices == 1..MaxPrice
Quantities == 1..MaxQty
Sides == {"Bid", "Ask"}

\* bounds of the stream manager
MaxSymbols == 2
NumDefaultSymbols == 1
MaxClients == 2
MaxStreams == 2
MaxSubLevels == 1
MaxChannels == 2
MaxTasks == 2
MaxCalls == 4
MaxActivities == 2
MaxBatch == 2
MaxDefinitions == 1

\* bounds of one connection: frames of the peer, heartbeats that reach it
MaxFrames == 2
MaxBeats == 1

\* bounds of the activity generator: calls of simulate_activity, and orders
\* resting at once while it runs
MaxSimulations == 1
MaxResting == 2

\* resolution of a price before it is rounded: parts of a tick
SubTicks == 1000

\* values the code fixes
DefaultMaxLevels == 20
SampleSequence == 60
MaxNumActivities == 8
TicksPerUnit == 100
SampleBasePrice == 100
SampleBidOffset == 5
SampleOrdersPerSide == 30

Impls == {"ws", "sse"}
Symbols == 1..MaxSymbols
DefaultSymbols == 1..NumDefaultSymbols
ClientIds == 1..MaxClients
StreamNames == 1..MaxStreams
DataTypes == {"MBO", "MBP"}
Tasks == 1..MaxTasks

\* ------------------------------------------------------------ state
VARIABLES
    orders,          \* OrderBook.orders: id -> Order
    bids_by_price,   \* OrderBook.bids_by_price: price -> Vec of ids
    asks_by_price,   \* OrderBook.asks_by_price: price -> Vec of ids
    sequence,        \* OrderBook.sequence
    arrivals,        \* history: resting ids, by their most recent add_order
    last,            \* history: the last call, its arguments and its result
    generator,       \* position and locals of a simulate_activity call
    impl,            \* which stream manager runs: "ws" (backend) or "sse" (backend-sse)
    callers,         \* how many tasks may be inside a call of the manager at once
    books,           \* every OrderBook allocated so far, by allocation number
    order_books,     \* StreamManager.order_books: symbol -> allocation number
    subscriptions,   \* StreamManager.subscriptions: symbol -> Vec of Subscription
    clients,         \* StreamManager.clients: client id -> channel
    client_streams,  \* SSEStreamManager.client_streams: client id -> Vec of stream id
    channels,        \* every mpsc channel created so far: receiver alive, messages sent
    tasks,           \* position and locals of each task calling the manager
    sim,             \* position and locals of the market simulation task
    hb,              \* position and locals of the heartbeat task
    counts,          \* calls and ticks started; client ids and stream names used so far;
                     \* clients unregistered while a subscribe for them was in flight;
                     \* streams unsubscribed
    retired,         \* history: channel -> messages it held when unregister_client returned
    rlast,           \* history: the last completed call, its result, the registry before it
    connection       \* position and locals of the handler of one connection

book_vars == <<orders, bids_by_price, asks_by_price, sequence>>
registry_vars == <<books, order_books, subscriptions, clients, client_streams, channels>>
manager_vars == <<impl, callers, books, order_books, subscriptions, clients, client_streams,
                  channels, tasks, sim, hb, counts, retired, rlast, connection>>
manager_state == <<impl, callers, books, order_books, subscriptions, clients, client_streams,
                   channels, tasks, sim, hb, counts, retired, rlast>>
vars == <<orders, bids_by_price, asks_by_price, sequence, arrivals, last, generator,
          impl, callers, books, order_books, subscriptions, clients, client_streams,
          channels, tasks, sim, hb, counts, retired, rlast, connection>>

\* ------------------------------------------------------------ helpers
EmptyMap == [k \in {} |-> 0]

MapInsert(m, k, v) == [x \in (DOMAIN m) \cup {k} |-> IF x = k THEN v ELSE m[x]]

MapRemove(m, k) == [x \in (DOMAIN m) \ {k} |-> m[x]]

\* Vec::retain(|id| id != order_id)
RECURSIVE Retain(_, _)
Retain(v, order_id) ==
    IF v = <<>> THEN <<>>
    ELSE IF Head(v) = order_id THEN Retain(Tail(v), order_id)
         ELSE <<Head(v)>> \o Retain(Tail(v), order_id)

\* Vec::truncate(len)
Truncate(v, len) == IF Len(v) > len THEN SubSeq(v, 1, len) ELSE v

SetMax(S) == CHOOSE x \in S : \A y \in S : y <= x

SetMin(S) == CHOOSE x \in S : \A y \in S : x <= y

\* BTreeMap::iter() (ascending keys) and BTreeMap::iter().rev()
RECURSIVE Ascending(_)
Ascending(S) ==
    IF S = {} THEN <<>> ELSE <<SetMin(S)>> \o Ascending(S \ {SetMin(S)})

RECURSIVE Descending(_)
Descending(S) ==
    IF S = {} THEN <<>> ELSE <<SetMax(S)>> \o Descending(S \ {SetMax(S)})

\* ------------------------------------------------------------ OrderBook
Order(id, price, quantity, side) ==
    [id |-> id, price |-> price, quantity |-> quantity, side |-> side]

Book == [orders |-> orders, bids_by_price |-> bids_by_price,
         asks_by_price |-> asks_by_price, sequence |-> sequence]

\* the absent Order: what HashMap::get returns for an unknown id
NoOrder == [id |-> 0, price |-> 0, quantity |-> 0, side |-> "None"]

\* HashMap::get(order_id)
GetOrder(b, order_id) ==
    IF order_id \in DOMAIN b.orders THEN b.orders[order_id] ELSE NoOrder

\* OrderBook::new
NewBook == [orders |-> EmptyMap, bids_by_price |-> EmptyMap,
            asks_by_price |-> EmptyMap, sequence |-> 0]

\* mutant of ladder_remove: the ladder is left as it was
ladder_remove_skipped(price_map, price_key, order_id) == price_map

\* mutant of ladder_remove: the key of an emptied Vec stays in the ladder
ladder_remove_keeps_key(price_map, price_key, order_id) ==
    IF price_key \in DOMAIN price_map
    THEN [price_map EXCEPT ![price_key] = Retain(@, order_id)]
    ELSE price_map

\* the ladder arm of remove_order: retain, then drop the key of an empty Vec
ladder_remove(price_map, price_key, order_id) ==
    IF price_key \in DOMAIN price_map
    THEN LET orders_at_price == Retain(price_map[price_key], order_id)
         IN IF orders_at_price = <<>>
            THEN MapRemove(price_map, price_key)
            ELSE [price_map EXCEPT ![price_key] = orders_at_price]
    ELSE price_map

\* mutant of remove_order: a miss still counts as a mutation
remove_order_counts_miss(b, order_id) ==
    IF order_id \in DOMAIN b.orders
    THEN LET order == b.orders[order_id]
             price_key == order.price
         IN [book |-> [orders |-> MapRemove(b.orders, order_id),
                       bids_by_price |->
                           IF order.side = "Bid"
                           THEN ladder_remove(b.bids_by_price, price_key, order_id)
                           ELSE b.bids_by_price,
                       asks_by_price |->
                           IF order.side = "Ask"
                           THEN ladder_remove(b.asks_by_price, price_key, order_id)
                           ELSE b.asks_by_price,
                       sequence |-> b.sequence + 1],
             ret |-> TRUE]
    ELSE [book |-> [b EXCEPT !.sequence = @ + 1], ret |-> FALSE]

remove_order(b, order_id) ==
    IF order_id \in DOMAIN b.orders
    THEN LET order == b.orders[order_id]
             price_key == order.price
         IN [book |-> [orders |-> MapRemove(b.orders, order_id),
                       bids_by_price |->
                           IF order.side = "Bid"
                           THEN ladder_remove(b.bids_by_price, price_key, order_id)
                           ELSE b.bids_by_price,
                       asks_by_price |->
                           IF order.side = "Ask"
                           THEN ladder_remove(b.asks_by_price, price_key, order_id)
                           ELSE b.asks_by_price,
                       sequence |-> b.sequence + 1],
             ret |-> TRUE]
    ELSE [book |-> b, ret |-> FALSE]

\* the ladder arm of add_order: entry(price_key).or_insert_with(Vec::new).push
ladder_push(price_map, price_key, order_id) ==
    MapInsert(price_map, price_key,
              Append(IF price_key \in DOMAIN price_map
                     THEN price_map[price_key] ELSE <<>>, order_id))

\* mutant of add_order: a resting order of the same id is not removed first
add_order_no_remove(b, order) ==
    [book |-> [orders |-> MapInsert(b.orders, order.id, order),
               bids_by_price |->
                   IF order.side = "Bid"
                   THEN ladder_push(b.bids_by_price, order.price, order.id)
                   ELSE b.bids_by_price,
               asks_by_price |->
                   IF order.side = "Ask"
                   THEN ladder_push(b.asks_by_price, order.price, order.id)
                   ELSE b.asks_by_price,
               sequence |-> b.sequence + 1],
     ret |-> TRUE]

add_order(b, order) ==
    LET b1 == IF order.id \in DOMAIN b.orders
              THEN remove_order(b, order.id).book
              ELSE b
        price_key == order.price
    IN [book |-> [orders |-> MapInsert(b1.orders, order.id, order),
                  bids_by_price |->
                      IF order.side = "Bid"
                      THEN ladder_push(b1.bids_by_price, price_key, order.id)
                      ELSE b1.bids_by_price,
                  asks_by_price |->
                      IF order.side = "Ask"
                      THEN ladder_push(b1.asks_by_price, price_key, order.id)
                      ELSE b1.asks_by_price,
                  sequence |-> b1.sequence + 1],
        ret |-> TRUE]

\* Order::update_quantity (the timestamp it resets is not modelled)
update_quantity(order, new_quantity) == [order EXCEPT !.quantity = new_quantity]

\* mutant of update_order: the updated order goes to the back of its level
update_order_requeues(b, order_id, new_quantity) ==
    IF new_quantity = 0
    THEN remove_order(b, order_id)
    ELSE IF order_id \in DOMAIN b.orders
         THEN LET removed == remove_order(b, order_id).book
                  order == update_quantity(b.orders[order_id], new_quantity)
                  pushed == IF order.side = "Bid"
                      THEN [removed EXCEPT !.bids_by_price =
                               ladder_push(@, order.price, order_id)]
                      ELSE [removed EXCEPT !.asks_by_price =
                               ladder_push(@, order.price, order_id)]
              IN [book |-> [pushed EXCEPT
                            !.orders = MapInsert(@, order_id, order),
                            !.sequence = b.sequence + 1],
                  ret |-> TRUE]
         ELSE [book |-> b, ret |-> FALSE]

\* mutant of update_order: quantity 0 is stored like any other quantity
update_order_no_zero_check(b, order_id, new_quantity) ==
    IF order_id \in DOMAIN b.orders
    THEN [book |-> [b EXCEPT
                    !.orders[order_id] = update_quantity(@, new_quantity),
                    !.sequence = @ + 1],
          ret |-> TRUE]
    ELSE [book |-> b, ret |-> FALSE]

update_order(b, order_id, new_quantity) ==
    IF new_quantity = 0
    THEN remove_order(b, order_id)
    ELSE IF order_id \in DOMAIN b.orders
         THEN [book |-> [b EXCEPT
                         !.orders[order_id] = update_quantity(@, new_quantity),
                         !.sequence = @ + 1],
               ret |-> TRUE]
         ELSE [book |-> b, ret |-> FALSE]

\* one entry of the Vec get_mbo_side returns (timestamp, age_ms not modelled)
MBOLevel(order) ==
    [order_id |-> order.id, price |-> order.price,
     quantity |-> order.quantity, side |-> order.side]

\* inner loop of get_mbo_side: the orders of one price level, index misses skipped
RECURSIVE mbo_level_orders(_, _)
mbo_level_orders(b, order_ids) ==
    IF order_ids = <<>> THEN <<>>
    ELSE (IF Head(order_ids) \in DOMAIN b.orders
          THEN <<MBOLevel(b.orders[Head(order_ids)])>> ELSE <<>>)
         \o mbo_level_orders(b, Tail(order_ids))

\* outer loop of get_mbo_side: stops once levels_count >= max_levels
RECURSIVE mbo_loop(_, _, _, _, _, _)
mbo_loop(b, price_map, prices, levels_count, max_levels, result) ==
    IF prices = <<>> \/ levels_count >= max_levels
    THEN result
    ELSE mbo_loop(b, price_map, Tail(prices), levels_count + 1, max_levels,
                  result \o mbo_level_orders(b, price_map[Head(prices)]))

\* the ladder of a side, and its keys in the side's iteration order
side_price_map(b, side) ==
    IF side = "Bid" THEN b.bids_by_price ELSE b.asks_by_price

\* mutant of side_prices: the bids are not reversed
side_prices_ascending(b, side) ==
    Ascending(DOMAIN side_price_map(b, side))

side_prices(b, side) ==
    IF side = "Bid"
    THEN Descending(DOMAIN b.bids_by_price)
    ELSE Ascending(DOMAIN b.asks_by_price)

\* x * 3 in u32: the two halves of the product modulo 2^32, and whether the
\* product passed u32::MAX
mul3_u32(x) ==
    LET low3 == (x % U32Half) * 3
        high3 == (x \div U32Half) * 3 + low3 \div U32Half
    IN [high |-> high3 % U32Half, low |-> low3 % U32Half, overflow |-> high3 >= U32Half]

\* (max_levels * 3) as usize
mbo_truncate_len(max_levels) == mul3_u32(max_levels)

\* mutant of get_mbo_side: the result is not truncated
get_mbo_side_no_truncate(b, side, max_levels) ==
    mbo_loop(b, side_price_map(b, side), side_prices(b, side),
             0, max_levels, <<>>)

get_mbo_side(b, side, max_levels) ==
    LET result == mbo_loop(b, side_price_map(b, side), side_prices(b, side),
                           0, max_levels, <<>>)
        len == mbo_truncate_len(max_levels)
    IN IF len.high > 0 THEN result ELSE Truncate(result, len.low)

get_mbo_data(b, max_levels) ==
    [bids |-> get_mbo_side(b, "Bid", max_levels),
     asks |-> get_mbo_side(b, "Ask", max_levels)]

\* orders.iter().map(|o| o.quantity).sum()
RECURSIVE quantity_sum(_, _)
quantity_sum(b, order_ids) ==
    IF order_ids = <<>> THEN 0
    ELSE (IF Head(order_ids) \in DOMAIN b.orders
          THEN b.orders[Head(order_ids)].quantity ELSE 0)
         + quantity_sum(b, Tail(order_ids))

\* order_ids.iter().filter_map(|id| self.orders.get(id)).collect().len()
RECURSIVE found_count(_, _)
found_count(b, order_ids) ==
    IF order_ids = <<>> THEN 0
    ELSE (IF Head(order_ids) \in DOMAIN b.orders THEN 1 ELSE 0)
         + found_count(b, Tail(order_ids))

\* the loop of get_mbp_side over prices.take(max_levels)
RECURSIVE mbp_loop(_, _, _, _, _, _)
mbp_loop(b, side, prices, taken, cumulative_quantity, result) ==
    IF prices = <<>> \/ taken = 0
    THEN result
    ELSE LET order_ids == side_price_map(b, side)[Head(prices)]
             order_count == found_count(b, order_ids)
             quantity == quantity_sum(b, order_ids)
         IN IF order_count > 0
            THEN mbp_loop(b, side, Tail(prices), taken - 1,
                          cumulative_quantity + quantity,
                          Append(result,
                                 [price |-> Head(prices),
                                  quantity |-> quantity,
                                  order_count |-> order_count,
                                  side |-> side,
                                  total_quantity |-> cumulative_quantity + quantity]))
            ELSE mbp_loop(b, side, Tail(prices), taken - 1,
                          cumulative_quantity, result)

\* mutant of get_mbp_side: every price level is taken
get_mbp_side_takes_all(b, side, max_levels) ==
    mbp_loop(b, side, side_prices(b, side),
             Len(side_prices(b, side)), 0, <<>>)

get_mbp_side(b, side, max_levels) ==
    mbp_loop(b, side, side_prices(b, side), max_levels, 0, <<>>)

get_mbp_data(b, max_levels) ==
    [bids |-> get_mbp_side(b, "Bid", max_levels),
     asks |-> get_mbp_side(b, "Ask", max_levels)]

\* Option<T>: None, or Some(value)
None == [some |-> FALSE]

Some(x) == [some |-> TRUE, value |-> x]

\* both sides read the first key of the ladder
get_best_bid_ask_first_key(b) ==
    [best_bid |-> IF DOMAIN b.bids_by_price = {} THEN None
                  ELSE Some(SetMin(DOMAIN b.bids_by_price)),
     best_ask |-> IF DOMAIN b.asks_by_price = {} THEN None
                  ELSE Some(SetMin(DOMAIN b.asks_by_price))]

\* keys().next_back() of the bid ladder, keys().next() of the ask ladder
get_best_bid_ask(b) ==
    [best_bid |-> IF DOMAIN b.bids_by_price = {} THEN None
                  ELSE Some(SetMax(DOMAIN b.bids_by_price)),
     best_ask |-> IF DOMAIN b.asks_by_price = {} THEN None
                  ELSE Some(SetMin(DOMAIN b.asks_by_price))]

\* a quotient of two tick counts, kept exact as numerator and denominator
Ratio(num, den) == [num |-> num, den |-> den]

\* the spread taken as a distance, never negative
get_spread_info_abs(b) ==
    LET q == get_best_bid_ask(b)
    IN IF q.best_bid.some /\ q.best_ask.some
       THEN LET bid == q.best_bid.value
                ask == q.best_ask.value
                spread == IF ask >= bid THEN ask - bid ELSE bid - ask
            IN [spread |-> Some(spread),
                mid_price |-> Some(Ratio(bid + ask, 2)),
                spread_bps |-> Some(Ratio(spread * 2 * 10000, bid + ask))]
       ELSE [spread |-> None, mid_price |-> None, spread_bps |-> None]

\* spread = ask - bid, mid_price = (bid + ask) / 2.0,
\* spread_bps = (spread / mid_price) * 10000.0
get_spread_info(b) ==
    LET q == get_best_bid_ask(b)
    IN IF q.best_bid.some /\ q.best_ask.some
       THEN LET bid == q.best_bid.value
                ask == q.best_ask.value
                spread == ask - bid
            IN [spread |-> Some(spread),
                mid_price |-> Some(Ratio(bid + ask, 2)),
                spread_bps |-> Some(Ratio(spread * 2 * 10000, bid + ask))]
       ELSE [spread |-> None, mid_price |-> None, spread_bps |-> None]

\* ------------------------------------------------------------ stream manager
\* Both managers (backend/src/stream_manager.rs, "ws", and
\* backend-sse/src/stream_manager.rs, "sse") run over the same state; impl
\* says which one.  An OrderBook behind its Arc<RwLock<..>> is known here by
\* its allocation number and carries its sequence counter only: every
\* mutation raises the counter, so a projection is identified by the
\* counter value of the book it was taken from.  A stream id of the ws
\* manager is a name the client supplies; the sse manager formats it from
\* (symbol, data_type, max_levels), which is kept as that triple.  A DashMap
\* is a function; a map-entry guard (Ref, RefMut, an iterator's current
\* entry) is held from the step that takes it to the step that drops it and
\* excludes, per key, the writers of that entry.

unwrap_or(opt, default) == IF opt.some THEN opt.value ELSE default

Subscription(stream_id, symbol, data_type, max_levels, client_id) ==
    [stream_id |-> stream_id, symbol |-> symbol, data_type |-> data_type,
     max_levels |-> unwrap_or(max_levels, DefaultMaxLevels), client_id |-> client_id]

\* format!("{}_{:?}_{}", symbol, data_type, max_levels)
format_stream_id(symbol, data_type, max_levels) == <<symbol, data_type, max_levels>>

\* the views a caller asks for: a data type and an optional depth
Views == {[data_type |-> "MBO", max_levels |-> None],
          [data_type |-> "MBP", max_levels |-> Some(MaxSubLevels)]}

\* (symbol, data_type, max_levels) as parse_streams hands them over
StreamDefinition ==
    { <<s, v.data_type, unwrap_or(v.max_levels, DefaultMaxLevels)>> :
          s \in Symbols, v \in Views }

StreamDefinitionLists == UNION { [1..n -> StreamDefinition] : n \in 1..MaxDefinitions }

\* the projection of a book: its format, its depth, and what identifies its
\* content: the book it was read from and the states of that book that its
\* bids (version) and its asks show
MarketDataUpdate(data_type, max_levels, book, bids, asks) ==
    [format |-> data_type, max_levels |-> max_levels, book |-> book,
     version |-> bids, asks |-> asks]

\* a message, and who sent it: a subscribe (tick 0) or the n-th tick of the
\* simulation task
MarketData(stream_id, symbol, data, seq, by, tick) ==
    [type |-> "MarketData", stream_id |-> stream_id, symbol |-> symbol,
     data |-> data, sequence |-> seq, by |-> by, tick |-> tick]

\* the message of the n-th tick of the heartbeat task
HeartBeat(tick) == [type |-> "HeartBeat", by |-> "heartbeat", tick |-> tick]

\* OrderBook::new followed by initialize_with_sample_data, behind a new
\* RwLock: nobody holds it; boundaries are the counter values the book had
\* whenever no batch of events was being applied to it
SampleBook(symbol) ==
    [symbol |-> symbol, sequence |-> SampleSequence, writer |-> FALSE, readers |-> 0,
     boundaries |-> {SampleSequence}]

\* RwLock: read() waits while the write guard is held
write_lock_ignored(book) == FALSE

write_locked(book) == book.writer

\* RwLock: write() waits while a read guard or the write guard is held
read_locked(book) == book.readers > 0

\* UnboundedSender::send: Err when the receiver is gone
send_ok(chs, ch) == chs[ch].open

send(chs, ch, message) ==
    IF chs[ch].open THEN [chs EXCEPT ![ch].queue = Append(@, message)] ELSE chs

\* Vec::retain of unregister_client: keeps what the client does not own
retain_not_client(v, client_id) ==
    LET Keep(sub) == sub.client_id # client_id IN SelectSeq(v, Keep)

\* Vec::retain of unsubscribe and remove_subscription
retain_not_stream(v, client_id, stream_id) ==
    LET Keep(sub) == ~(sub.client_id = client_id /\ sub.stream_id = stream_id)
    IN SelectSeq(v, Keep)

\* subscriptions.retain(|_, v| !v.is_empty())
retain_non_empty(m) == [k \in { x \in DOMAIN m : m[x] # <<>> } |-> m[k]]

\* entry(key).or_insert_with(Vec::new).push(value)
entry_push(m, key, value) ==
    IF key \in DOMAIN m THEN [m EXCEPT ![key] = Append(@, value)]
    ELSE MapInsert(m, key, <<value>>)

Registry ==
    [books |-> books, order_books |-> order_books, subscriptions |-> subscriptions,
     clients |-> clients, client_streams |-> client_streams, channels |-> channels]

NoArgs == [client_id |-> 0]

IdleTask ==
    [pc |-> "idle", op |-> "none", args |-> NoArgs, client_id |-> 0, stream_id |-> 0,
     symbol |-> 0, data_type |-> "none", max_levels |-> 0, defs |-> <<>>,
     book |-> 0, version |-> 0, seq |-> 0, todo |-> {}, visited |-> {},
     streams |-> <<>>, removed |-> 0, pre |-> [books |-> <<>>], ret |-> "none"]

\* no handler of a connection runs: the manager is called from outside
NoConnection == [handler |-> "none"]

\* clients0 is history: the clients map when the task began to serve the
\* subscriptions of a symbol (simulation) or the clients (heartbeat)
IdleSim == [pc |-> "idle", todo |-> {}, visited |-> {}, symbol |-> 0, book |-> 0,
            i |-> 0, client_id |-> 0, events |-> 0, clients0 |-> EmptyMap]

IdleHb == [pc |-> "idle", todo |-> {}, visited |-> {}, clients0 |-> EmptyMap,
           channels0 |-> 0]

NoCall == [op |-> "none"]

\* no simulate_activity call is running; activities is the length of the Vec
\* of the call and activity its last element; calls and redrawn are history:
\* the calls begun, and whether the element being generated took a recursive
\* call of generate_random_activity
IdleGenerator ==
    [pc |-> "idle", calls |-> 0, num_activities |-> 0, activities |-> 0,
     activity |-> [some |-> FALSE], sequence0 |-> 0, redrawn |-> FALSE]

\* StreamManager::new(): every map empty, no task running
ManagerNew ==
    /\ impl = "ws"
    /\ callers = 1
    /\ books = <<>>
    /\ order_books = EmptyMap
    /\ subscriptions = EmptyMap
    /\ clients = EmptyMap
    /\ client_streams = EmptyMap
    /\ channels = <<>>
    /\ tasks = [t \in Tasks |-> IdleTask]
    /\ sim = IdleSim
    /\ hb = IdleHb
    /\ counts = [calls |-> 0, ticks |-> 0, beats |-> 0, clients |-> 0, streams |-> 0,
                 raced |-> {}, unsubscribed |-> {}]
    /\ retired = EmptyMap
    /\ rlast = NoCall
    /\ connection = NoConnection

\* ------------------------------------------------------------ actions
Init ==
    /\ orders = NewBook.orders
    /\ bids_by_price = NewBook.bids_by_price
    /\ asks_by_price = NewBook.asks_by_price
    /\ sequence = NewBook.sequence
    /\ arrivals = <<>>
    /\ last = [op |-> "new"]
    /\ generator = IdleGenerator
    /\ ManagerNew

SetBook(b) ==
    /\ orders' = b.orders
    /\ bids_by_price' = b.bids_by_price
    /\ asks_by_price' = b.asks_by_price
    /\ sequence' = b.sequence

\* the id a new order takes: the least id not resting
NextFreshId == SetMin((OrderIds \ DOMAIN orders) \cup {MaxOrders + 1})

AddOrder ==
    \E id \in OrderIds, price \in Prices, quantity \in Quantities, side \in Sides :
        /\ sequence < MaxSeq
        /\ LET order == Order(id, price, quantity, side)
               r == add_order(Book, order)
           IN /\ id \in DOMAIN orders \/ id = NextFreshId
              /\ r.book.sequence <= MaxSeq
              /\ SetBook(r.book)
              /\ arrivals' = Append(Retain(arrivals, id), id)
              /\ last' = [op |-> "add_order", order |-> order,
                          existed |-> id \in DOMAIN orders,
                          prev |-> GetOrder(Book, id),
                       seq_before |-> sequence, ret |-> r.ret]
              /\ UNCHANGED <<generator, manager_vars>>

RemoveOrder ==
    \E id \in OrderIds :
        LET r == remove_order(Book, id)
        IN /\ r.book.sequence <= MaxSeq
           /\ SetBook(r.book)
           /\ arrivals' = Retain(arrivals, id)
           /\ last' = [op |-> "remove_order", order_id |-> id,
                       existed |-> id \in DOMAIN orders,
                       prev |-> GetOrder(Book, id),
                       seq_before |-> sequence, ret |-> r.ret]
           /\ UNCHANGED <<generator, manager_vars>>

UpdateOrder ==
    \E id \in OrderIds, new_quantity \in 0..MaxQty :
        LET r == update_order(Book, id, new_quantity)
        IN /\ r.book.sequence <= MaxSeq
           /\ SetBook(r.book)
           /\ arrivals' = IF new_quantity = 0 THEN Retain(arrivals, id) ELSE arrivals
           /\ last' = [op |-> "update_order", order_id |-> id,
                       new_quantity |-> new_quantity,
                       existed |-> id \in DOMAIN orders,
                       prev |-> GetOrder(Book, id),
                       seq_before |-> sequence, ret |-> r.ret]
           /\ UNCHANGED <<generator, manager_vars>>

\* max_levels * 3 past u32::MAX wraps where overflow is not checked and
\* panics where it is
GetMboData ==
    \E max_levels \in MboLevels :
        /\ \/ last' = [op |-> "get_mbo_data", max_levels |-> max_levels,
                       data |-> get_mbo_data(Book, max_levels)]
           \/ /\ mbo_truncate_len(max_levels).overflow
              /\ last' = [op |-> "panic", call |-> "get_mbo_data",
                          max_levels |-> max_levels]
        /\ UNCHANGED <<book_vars, arrivals, generator, manager_vars>>

GetMbpData ==
    \E max_levels \in 0..MaxLevels :
        /\ last' = [op |-> "get_mbp_data", max_levels |-> max_levels,
                    data |-> get_mbp_data(Book, max_levels)]
        /\ UNCHANGED <<book_vars, arrivals, generator, manager_vars>>

GetBestBidAsk ==
    /\ last' = [op |-> "get_best_bid_ask", ret |-> get_best_bid_ask(Book)]
    /\ UNCHANGED <<book_vars, arrivals, generator, manager_vars>>

GetSpreadInfo ==
    /\ last' = [op |-> "get_spread_info", ret |-> get_spread_info(Book)]
    /\ UNCHANGED <<book_vars, arrivals, generator, manager_vars>>

Next ==
    \/ AddOrder
    \/ RemoveOrder
    \/ UpdateOrder
    \/ GetMboData
    \/ GetMbpData
    \/ GetBestBidAsk
    \/ GetSpreadInfo

Spec == Init /\ [][Next]_vars

\* ------------------------------------------------------------ synthetic activity
OrderActivity(activity_type, order_id, price, quantity, side) ==
    [activity_type |-> activity_type, order_id |-> order_id, price |-> price,
     quantity |-> quantity, side |-> side]

\* the id of a new order, "order_<milliseconds>_<random u32>": an id no resting
\* order has, here the least one
FreshId(b) == SetMin((OrderIds \ DOMAIN b.orders) \cup {MaxOrders + 1})

\* what one call of generate_random_activity draws: the branch is
\* activity_type_rand (below 0.4, below 0.7, the rest), price is the base price
\* plus the variation, floored at one tick and rounded, quantity is the
\* quantity of a new order, key is the index into orders.keys(), delta is the
\* change of quantity of an update (-2000..=1000 where a new order has
\* 1000..=10000)
Draws(b) ==
    [branch : {"add", "update", "cancel"}, side : Sides, price : Prices,
     quantity : Quantities, key : IF DOMAIN b.orders = {} THEN {0} ELSE DOMAIN b.orders,
     delta : (0 - MaxQty)..1]

\* the cancel branch is taken on an empty book too
generate_random_activity_unguarded(b, rand) ==
    IF rand.branch = "add"
    THEN Some(OrderActivity("Add", FreshId(b), Some(rand.price), Some(rand.quantity),
                            Some(rand.side)))
    ELSE Some(OrderActivity("Cancel", rand.key, None, None, None))

\* generate_random_activity(&self, rng): the activity, or None where the code
\* calls itself again, which draws again
generate_random_activity(b, rand) ==
    IF rand.branch = "add"
    THEN Some(OrderActivity("Add", FreshId(b), Some(rand.price), Some(rand.quantity),
                            Some(rand.side)))
    ELSE IF rand.branch = "update" /\ DOMAIN b.orders # {}
    THEN LET sum == b.orders[rand.key].quantity + rand.delta
             new_quantity == IF sum > 0 THEN sum ELSE 0
         IN Some(OrderActivity(IF new_quantity > 0 THEN "Update" ELSE "Cancel", rand.key,
                               None,
                               IF new_quantity > 0 THEN Some(new_quantity) ELSE None,
                               None))
    ELSE IF DOMAIN b.orders # {}
    THEN Some(OrderActivity("Cancel", rand.key, None, None, None))
    ELSE None

\* an update is executed as a removal
execute_activity_update_removes(b, activity) ==
    IF activity.activity_type = "Add"
    THEN add_order(b, Order(activity.order_id, activity.price.value,
                            activity.quantity.value, activity.side.value)).book
    ELSE remove_order(b, activity.order_id).book

\* execute_activity(&mut self, activity)
execute_activity(b, activity) ==
    IF activity.activity_type = "Add"
    THEN IF activity.price.some /\ activity.quantity.some /\ activity.side.some
         THEN add_order(b, Order(activity.order_id, activity.price.value,
                                 activity.quantity.value, activity.side.value)).book
         ELSE b
    ELSE IF activity.activity_type = "Update"
    THEN IF activity.quantity.some
         THEN update_order(b, activity.order_id, activity.quantity.value).book
         ELSE b
    ELSE remove_order(b, activity.order_id).book

\* the activity fits the bounds of the model
WithinBounds(activity) ==
    /\ activity.order_id <= MaxResting
    /\ activity.quantity.some => activity.quantity.value <= MaxQty

\* simulate_activity: num_activities is drawn, the Vec is empty
SimulateActivity ==
    /\ generator.pc = "idle"
    /\ generator.calls < MaxSimulations
    /\ \E num_activities \in 1..MaxNumActivities :
           generator' = [generator EXCEPT !.pc = "generate", !.calls = @ + 1,
                                          !.num_activities = num_activities,
                                          !.activities = 0, !.activity = None,
                                          !.sequence0 = sequence, !.redrawn = FALSE]
    /\ UNCHANGED <<book_vars, arrivals, last, manager_vars>>

\* one call of generate_random_activity; its result is pushed
GenerateRandomActivity ==
    /\ generator.pc = "generate"
    /\ \E rand \in Draws(Book) :
           LET r == generate_random_activity(Book, rand)
           IN IF r.some
              THEN /\ WithinBounds(r.value)
                   /\ generator' = [generator EXCEPT !.pc = "execute",
                                                  !.activity = r,
                                                  !.activities = @ + 1]
              ELSE generator' = [generator EXCEPT !.redrawn = TRUE]
    /\ UNCHANGED <<book_vars, arrivals, last, manager_vars>>

\* execute_activity on the activity just pushed, then the next round of the loop
ExecuteActivity ==
    /\ generator.pc = "execute"
    /\ LET activity == generator.activity.value
           id == activity.order_id
       IN /\ SetBook(execute_activity(Book, activity))
          /\ arrivals' = IF activity.activity_type = "Add"
                         THEN Append(Retain(arrivals, id), id)
                         ELSE IF activity.activity_type = "Cancel"
                         THEN Retain(arrivals, id)
                         ELSE arrivals
          /\ last' = [op |-> "execute_activity", activity |-> activity,
                      existed |-> id \in DOMAIN orders,
                      was_empty |-> DOMAIN orders = {},
                      seq_before |-> sequence]
    /\ generator' = [generator EXCEPT
                         !.pc = IF generator.activities = generator.num_activities
                                THEN "returned" ELSE "generate",
                         !.redrawn = FALSE]
    /\ UNCHANGED manager_vars

\* simulate_activity returns the Vec
ReturnActivities ==
    /\ generator.pc = "returned"
    /\ generator' = [generator EXCEPT !.pc = "idle"]
    /\ UNCHANGED <<book_vars, arrivals, last, manager_vars>>

NextGenerator ==
    \/ SimulateActivity
    \/ GenerateRandomActivity
    \/ ExecuteActivity
    \/ ReturnActivities

SpecGenerator == Init /\ [][NextGenerator]_vars

\* the random number generator does not draw forever a branch that makes
\* generate_random_activity call itself
Produces == GenerateRandomActivity /\ generator'.pc = "execute"

SpecGeneratorFair == SpecGenerator /\ WF_vars(Produces) /\ WF_vars(ExecuteActivity)

\* ------------------------------------------------------------ sample data
\* format!("bid_{}", i) and format!("ask_{}", i) as numbers
SampleId(side, i) == IF side = "Bid" THEN i + 1 ELSE SampleOrdersPerSide + i + 1

SampleIds == 1..(2 * SampleOrdersPerSide)

\* (x * 100.0).round() on a price held in parts of a tick
round_to_ticks(x) == (x + SubTicks \div 2) \div SubTicks

\* the bids are laid from the reference price itself
sample_price_no_offset(side, i, error) ==
    (IF side = "Bid"
     THEN SampleBasePrice * TicksPerUnit - i
     ELSE SampleBasePrice * TicksPerUnit + i) * SubTicks + error

\* base_price - 0.05 - i * 0.01 and base_price + i * 0.01 in parts of a tick,
\* error being what the floating point operations leave of inexactness
sample_price(side, i, error) ==
    (IF side = "Bid"
     THEN SampleBasePrice * TicksPerUnit - SampleBidOffset - i
     ELSE SampleBasePrice * TicksPerUnit + i) * SubTicks + error

\* what one call draws: the quantities of the orders (all the same but for
\* one order at most) and the inexactness of the price arithmetic
SampleDraws ==
    [quantity : {[id \in SampleIds |-> IF id = j THEN q2 ELSE q1] :
                     q1 \in Quantities, q2 \in Quantities, j \in SampleIds},
     error : -1..1]

\* one round of a loop of initialize_with_sample_data: the order is built
\* and add_order is called
add_sample_order(b, side, i, rand) ==
    LET id == SampleId(side, i)
    IN add_order(b, Order(id, round_to_ticks(sample_price(side, i, rand.error)),
                          rand.quantity[id], side)).book

\* initialize_symbol calls initialize_with_sample_data on the book that
\* OrderBook::new returned; the values of thread_rng are drawn
InitializeWithSampleData ==
    /\ last.op = "new"
    /\ \E rand \in SampleDraws :
           last' = [op |-> "initialize_with_sample_data", rand |-> rand, i |-> 0,
                    returned |-> FALSE]
    /\ UNCHANGED <<book_vars, arrivals, generator, manager_vars>>

\* for i in 0..30, the bids
AddSampleBid ==
    /\ last.op = "initialize_with_sample_data"
    /\ last.i < SampleOrdersPerSide
    /\ SetBook(add_sample_order(Book, "Bid", last.i, last.rand))
    /\ arrivals' = Append(arrivals, SampleId("Bid", last.i))
    /\ last' = [last EXCEPT !.i = @ + 1]
    /\ UNCHANGED <<generator, manager_vars>>

\* for i in 0..30, the asks
AddSampleAsk ==
    /\ last.op = "initialize_with_sample_data"
    /\ last.i >= SampleOrdersPerSide
    /\ last.i < 2 * SampleOrdersPerSide
    /\ SetBook(add_sample_order(Book, "Ask", last.i - SampleOrdersPerSide, last.rand))
    /\ arrivals' = Append(arrivals, SampleId("Ask", last.i - SampleOrdersPerSide))
    /\ last' = [last EXCEPT !.i = @ + 1]
    /\ UNCHANGED <<generator, manager_vars>>

\* initialize_with_sample_data returns
ReturnSampleData ==
    /\ last.op = "initialize_with_sample_data"
    /\ last.i = 2 * SampleOrdersPerSide
    /\ ~last.returned
    /\ last' = [last EXCEPT !.returned = TRUE]
    /\ UNCHANGED <<book_vars, arrivals, generator, manager_vars>>

NextSample ==
    \/ InitializeWithSampleData
    \/ AddSampleBid
    \/ AddSampleAsk
    \/ ReturnSampleData

SpecSample == Init /\ [][NextSample]_vars

\* ------------------------------------------------------------ stream manager: steps
order_book_vars == <<orders, bids_by_price, asks_by_price, sequence, arrivals, last,
                     generator, connection>>

\* StreamManager::start and the initialize_symbol of later calls: the symbols
\* have their books
StartedWith(symbols) ==
    /\ orders = NewBook.orders
    /\ bids_by_price = NewBook.bids_by_price
    /\ asks_by_price = NewBook.asks_by_price
    /\ sequence = NewBook.sequence
    /\ arrivals = <<>>
    /\ last = [op |-> "new"]
    /\ generator = IdleGenerator
    /\ impl \in Impls
    /\ books = [i \in symbols |-> SampleBook(i)]
    /\ order_books = [s \in symbols |-> s]
    /\ tasks = [t \in Tasks |-> IdleTask]
    /\ sim = IdleSim
    /\ hb = IdleHb
    /\ retired = EmptyMap
    /\ rlast = NoCall

\* StreamManager::start: the default symbols have their books
ManagerStarted == StartedWith(DefaultSymbols)

\* no client yet
NoClient ==
    /\ subscriptions = EmptyMap
    /\ clients = EmptyMap
    /\ client_streams = EmptyMap
    /\ channels = <<>>
    /\ counts = [calls |-> 0, ticks |-> 0, beats |-> 0, clients |-> 0, streams |-> 0,
                 raced |-> {}, unsubscribed |-> {}]

\* the subscription of a client that has connected
FirstSubscription ==
    Subscription(IF impl = "ws" THEN 1 ELSE format_stream_id(1, "MBP", MaxSubLevels),
                 1, "MBP", Some(MaxSubLevels), 1)

\* one client has connected: register_client(1, sender) and a subscribe of
\* the first default symbol have returned, its snapshot is in the channel
OneClient ==
    /\ subscriptions = entry_push(EmptyMap, 1, FirstSubscription)
    /\ clients = MapInsert(EmptyMap, 1, 1)
    /\ client_streams = IF impl = "ws" THEN EmptyMap
                        ELSE entry_push(EmptyMap, 1, FirstSubscription.stream_id)
    /\ channels = <<[open |-> TRUE,
                     queue |-> <<MarketData(FirstSubscription.stream_id, 1,
                                     MarketDataUpdate("MBP", MaxSubLevels, 1, SampleSequence,
                                                      SampleSequence),
                                     SampleSequence, "subscribe", 0)>>]>>
    /\ counts = [calls |-> 0, ticks |-> 0, beats |-> 0, clients |-> 1,
                 streams |-> IF impl = "ws" THEN 1 ELSE 0, raced |-> {}, unsubscribed |-> {}]

\* the subscription of a second client on the same symbol
SecondSubscription ==
    Subscription(IF impl = "ws" THEN 1 ELSE format_stream_id(1, "MBO", DefaultMaxLevels),
                 1, "MBO", None, 2)

\* two clients have connected: after the calls of OneClient,
\* register_client(2, sender) and a subscribe of the same symbol returned
TwoClients ==
    /\ subscriptions = entry_push(entry_push(EmptyMap, 1, FirstSubscription),
                                  1, SecondSubscription)
    /\ clients = MapInsert(MapInsert(EmptyMap, 1, 1), 2, 2)
    /\ client_streams =
           IF impl = "ws" THEN EmptyMap
           ELSE entry_push(entry_push(EmptyMap, 1, FirstSubscription.stream_id),
                           2, SecondSubscription.stream_id)
    /\ channels = <<[open |-> TRUE,
                     queue |-> <<MarketData(FirstSubscription.stream_id, 1,
                                     MarketDataUpdate("MBP", MaxSubLevels, 1, SampleSequence,
                                                      SampleSequence),
                                     SampleSequence, "subscribe", 0)>>],
                    [open |-> TRUE,
                     queue |-> <<MarketData(SecondSubscription.stream_id, 1,
                                     MarketDataUpdate("MBO", DefaultMaxLevels, 1,
                                                      SampleSequence, SampleSequence),
                                     SampleSequence, "subscribe", 0)>>]>>
    /\ counts = [calls |-> 0, ticks |-> 0, beats |-> 0, clients |-> 2,
                 streams |-> IF impl = "ws" THEN 1 ELSE 0, raced |-> {}, unsubscribed |-> {}]

InitSequential ==
    ManagerStarted /\ callers = 1 /\ NoClient /\ connection = NoConnection

\* the subscription of the first client, under the same stream id, to the
\* last symbol
RepeatedSubscription ==
    Subscription(FirstSubscription.stream_id, MaxSymbols, "MBP", Some(MaxSubLevels), 1)

\* backend: after the calls of OneClient, the client has sent a second
\* Subscribe message with the stream id of the first and another symbol
\* (every symbol has its book by then)
RepeatedStream ==
    /\ StartedWith(Symbols)
    /\ impl = "ws"
    /\ subscriptions = entry_push(entry_push(EmptyMap, 1, FirstSubscription),
                                  MaxSymbols, RepeatedSubscription)
    /\ clients = MapInsert(EmptyMap, 1, 1)
    /\ client_streams = EmptyMap
    /\ channels = <<[open |-> TRUE,
                     queue |-> <<MarketData(FirstSubscription.stream_id, 1,
                                     MarketDataUpdate("MBP", MaxSubLevels, 1, SampleSequence,
                                                      SampleSequence),
                                     SampleSequence, "subscribe", 0),
                                 MarketData(FirstSubscription.stream_id, MaxSymbols,
                                     MarketDataUpdate("MBP", MaxSubLevels, MaxSymbols,
                                                      SampleSequence, SampleSequence),
                                     SampleSequence, "subscribe", 0)>>]>>
    /\ counts = [calls |-> 0, ticks |-> 0, beats |-> 0, clients |-> 1, streams |-> 1,
                 raced |-> {}, unsubscribed |-> {}]

InitConcurrent ==
    /\ callers = MaxTasks
    /\ connection = NoConnection
    /\ \/ ManagerStarted /\ (NoClient \/ OneClient \/ TwoClients)
       \/ RepeatedStream

\* map-entry guards held across steps, by key
SimHoldsBook(s) ==
    sim.pc \in {"sim_batch", "sim_subs", "sim_sub", "sim_send"} /\ sim.symbol = s

SimHoldsSubscriptions(s) == sim.pc \in {"sim_sub", "sim_send"} /\ sim.symbol = s

SimHoldsClient(c) == sim.pc = "sim_send" /\ sim.client_id = c

TaskHoldsSnapshot(u) ==
    tasks[u].pc \in {"sub_project", "sub_asks", "sub_sequence", "sub_send"}

order_books_locked(t, s) ==
    SimHoldsBook(s) \/ \E u \in Tasks \ {t} : TaskHoldsSnapshot(u) /\ tasks[u].symbol = s

subscriptions_locked(s) == SimHoldsSubscriptions(s)

clients_locked(t, c) ==
    SimHoldsClient(c) \/ \E u \in Tasks \ {t} : TaskHoldsSnapshot(u) /\ tasks[u].client_id = c

\* the calls and the ticks started so far
Activities == counts.calls + counts.ticks + counts.beats

\* a call may begin on the first idle task (the tasks are interchangeable),
\* while fewer than `callers` calls are running
CanStart(t) ==
    /\ tasks[t].pc = "idle"
    /\ \A u \in Tasks : u < t => tasks[u].pc # "idle"
    /\ Cardinality({ u \in Tasks : tasks[u].pc # "idle" }) < callers
    /\ IF callers = 1 THEN counts.calls < MaxCalls ELSE Activities < MaxActivities

\* a call begins: its arguments and, when no other task can run during the
\* call, the registry it starts from
NewCall(op, args) ==
    [IdleTask EXCEPT !.op = op, !.args = args, !.client_id = args.client_id,
                     !.pre = IF callers = 1 THEN Registry ELSE IdleTask.pre]

\* client ids (Uuids) and stream names are interchangeable: a call names a
\* client or a stream named before, or the first one not named yet
NameableClients == { c \in ClientIds : c <= counts.clients + 1 }

NameableStreams == { n \in StreamNames : n <= counts.streams + 1 }

Max(a, b) == IF a >= b THEN a ELSE b

\* history: unsubscribe(client_id, stream_id) has returned true, ticks ticks
\* having started before, and the client has not subscribed the id since
Unsubscribed(client_id, stream_id) ==
    [client_id |-> client_id, stream_id |-> stream_id, ticks |-> counts.ticks]

\* history: an unregister_client races when it begins while a subscribe for
\* the same client is in flight
Races(L) ==
    /\ L.op = "unregister_client"
    /\ \E u \in Tasks :
        /\ tasks[u].pc # "idle"
        /\ tasks[u].op = "subscribe"
        /\ tasks[u].client_id = L.client_id

Started(L, stream_name) ==
    counts' = [counts EXCEPT !.calls = @ + 1, !.clients = Max(@, L.client_id),
                             !.streams = Max(@, stream_name),
                             !.raced = IF Races(L) THEN @ \cup {L.client_id} ELSE @]

\* a call returns; the handler of a connection has the returned value
Return(t, L, ret) ==
    /\ tasks' = [tasks EXCEPT ![t] = IF connection = NoConnection THEN IdleTask
                                     ELSE [IdleTask EXCEPT !.ret = ret]]
    /\ rlast' = [op |-> L.op, args |-> L.args, ret |-> ret, pre |-> L.pre]

Goto(t, L) ==
    /\ tasks' = [tasks EXCEPT ![t] = L]
    /\ rlast' = NoCall

\* the sender leaves the clients map
clients_remove_skipped(m, client_id) == m

clients_remove(m, client_id) == MapRemove(m, client_id)

\* the keys an iteration over subscriptions must visit: those present when
\* it starts; a key inserted after that may be visited or missed
Todo(L) == IF L.visited = {} THEN DOMAIN subscriptions ELSE L.todo

\* ---- register_client
\* the sender already in the map stays
clients_insert_keeps_old(m, client_id, sender) ==
    IF client_id \in DOMAIN m THEN m ELSE MapInsert(m, client_id, sender)

\* DashMap::insert: the new sender replaces the one in the map, which is dropped
clients_insert(m, client_id, sender) == MapInsert(m, client_id, sender)

\* register_client(c, tx), tx the sender of a channel just created
register_client(t, c) ==
    LET ch == Len(channels) + 1
        L == NewCall("register_client", [client_id |-> c, sender |-> ch])
    IN /\ ~clients_locked(t, c)
       /\ channels' = Append(channels, [open |-> TRUE, queue |-> <<>>])
       /\ clients' = clients_insert(clients, c, ch)
       /\ IF impl = "ws" THEN Return(t, L, "unit")
          ELSE Goto(t, [L EXCEPT !.pc = "reg_streams"])
       /\ Started(L, 0)

RegisterClient(t) ==
    /\ CanStart(t)
    /\ Len(channels) < MaxChannels
    /\ \E c \in NameableClients : register_client(t, c)
    /\ UNCHANGED <<impl, callers, books, order_books, subscriptions, client_streams,
                   sim, hb, retired, order_book_vars>>

RegisterStreams(t) ==
    /\ tasks[t].pc = "reg_streams"
    /\ client_streams' = MapInsert(client_streams, tasks[t].client_id, <<>>)
    /\ Return(t, tasks[t], "unit")
    /\ UNCHANGED <<impl, callers, books, order_books, subscriptions, clients, channels,
                   sim, hb, counts, retired, order_book_vars>>

\* ---- unregister_client
Retire(L) ==
    retired' = IF L.removed = 0 THEN retired
               ELSE MapInsert(retired, L.removed, Len(channels[L.removed].queue))

RemovedSender(c) == IF c \in DOMAIN clients THEN clients[c] ELSE 0

\* ws: clients.remove, then the loop over subscriptions.iter_mut()
unregister_client_ws(t, c) ==
    LET L == NewCall("unregister_client", [client_id |-> c])
    IN /\ ~clients_locked(t, c)
       /\ clients' = clients_remove(clients, c)
       /\ Goto(t, [L EXCEPT !.pc = "unreg_iter", !.removed = RemovedSender(c)])
       /\ Started(L, 0)

UnregisterClientWs(t) ==
    /\ impl = "ws"
    /\ CanStart(t)
    /\ \E c \in NameableClients : unregister_client_ws(t, c)
    /\ UNCHANGED <<impl, callers, books, order_books, subscriptions, client_streams,
                   channels, sim, hb, retired, order_book_vars>>

UnregisterRetain(t) ==
    /\ tasks[t].pc = "unreg_iter"
    /\ \E s \in DOMAIN subscriptions \ tasks[t].visited :
        /\ ~subscriptions_locked(s)
        /\ subscriptions' = [subscriptions EXCEPT
                                ![s] = retain_not_client(@, tasks[t].client_id)]
        /\ Goto(t, [tasks[t] EXCEPT !.todo = Todo(tasks[t]), !.visited = @ \cup {s}])
    /\ UNCHANGED <<impl, callers, books, order_books, clients, client_streams, channels,
                   sim, hb, counts, retired, order_book_vars>>

UnregisterPrune(t) ==
    /\ tasks[t].pc = "unreg_iter"
    /\ (Todo(tasks[t]) \cap DOMAIN subscriptions) \subseteq tasks[t].visited
    /\ \A s \in DOMAIN subscriptions : ~subscriptions_locked(s)
    /\ subscriptions' = retain_non_empty(subscriptions)
    /\ Return(t, tasks[t], "unit")
    /\ Retire(tasks[t])
    /\ UNCHANGED <<impl, callers, books, order_books, clients, client_streams, channels,
                   sim, hb, counts, order_book_vars>>

\* sse: client_streams.remove, remove_subscription per stream, clients.remove
NextStream(L) ==
    IF L.streams = <<>> THEN [L EXCEPT !.pc = "unreg_clients"]
    ELSE [L EXCEPT !.pc = "rm_iter", !.stream_id = Head(L.streams),
                   !.streams = Tail(L.streams), !.todo = {}, !.visited = {}]

unregister_client_sse(t, c) ==
    LET L == NewCall("unregister_client", [client_id |-> c])
        streams == IF c \in DOMAIN client_streams THEN client_streams[c] ELSE <<>>
    IN /\ client_streams' = MapRemove(client_streams, c)
       /\ Goto(t, NextStream([L EXCEPT !.streams = streams]))
       /\ Started(L, 0)

UnregisterClientSse(t) ==
    /\ impl = "sse"
    /\ CanStart(t)
    /\ \E c \in NameableClients : unregister_client_sse(t, c)
    /\ UNCHANGED <<impl, callers, books, order_books, subscriptions, clients, channels,
                   sim, hb, retired, order_book_vars>>

\* remove_subscription: one entry of the loop; it breaks at the first entry
\* that lost a subscription
RemoveSubscriptionRetain(t) ==
    /\ tasks[t].pc = "rm_iter"
    /\ \E s \in DOMAIN subscriptions \ tasks[t].visited :
        LET kept == retain_not_stream(subscriptions[s], tasks[t].client_id,
                                      tasks[t].stream_id)
        IN /\ ~subscriptions_locked(s)
           /\ subscriptions' = [subscriptions EXCEPT ![s] = kept]
           /\ IF Len(kept) # Len(subscriptions[s])
              THEN Goto(t, [tasks[t] EXCEPT !.pc = "rm_prune"])
              ELSE Goto(t, [tasks[t] EXCEPT !.todo = Todo(tasks[t]),
                                            !.visited = @ \cup {s}])
    /\ UNCHANGED <<impl, callers, books, order_books, clients, client_streams, channels,
                   sim, hb, counts, retired, order_book_vars>>

RemoveSubscriptionPrune(t) ==
    /\ \/ tasks[t].pc = "rm_prune"
       \/ /\ tasks[t].pc = "rm_iter"
          /\ (Todo(tasks[t]) \cap DOMAIN subscriptions) \subseteq tasks[t].visited
    /\ \A s \in DOMAIN subscriptions : ~subscriptions_locked(s)
    /\ subscriptions' = retain_non_empty(subscriptions)
    /\ Goto(t, NextStream([tasks[t] EXCEPT !.todo = {}, !.visited = {}]))
    /\ UNCHANGED <<impl, callers, books, order_books, clients, client_streams, channels,
                   sim, hb, counts, retired, order_book_vars>>

UnregisterClients(t) ==
    /\ tasks[t].pc = "unreg_clients"
    /\ ~clients_locked(t, tasks[t].client_id)
    /\ clients' = clients_remove(clients, tasks[t].client_id)
    /\ Return(t, tasks[t], "unit")
    /\ Retire([tasks[t] EXCEPT !.removed = RemovedSender(tasks[t].client_id)])
    /\ UNCHANGED <<impl, callers, books, order_books, subscriptions, client_streams, channels,
                   sim, hb, counts, order_book_vars>>

\* ---- subscribe (ws) and subscribe_to_streams (sse)
\* the next stream definition and the contains_key test on its symbol
NextDefinition(L) ==
    LET d == Head(L.defs)
    IN [L EXCEPT !.symbol = d.symbol, !.data_type = d.data_type,
                 !.max_levels = d.max_levels, !.stream_id = d.stream_id,
                 !.defs = Tail(L.defs),
                 !.pc = IF d.symbol \in DOMAIN order_books THEN "sub_push"
                        ELSE "sub_init"]

subscribe(t, c, stream_id, symbol, data_type, max_levels) ==
    LET L == NewCall("subscribe",
                     [client_id |-> c, stream_id |-> stream_id, symbol |-> symbol,
                      data_type |-> data_type, max_levels |-> max_levels])
        d == [symbol |-> symbol, data_type |-> data_type, stream_id |-> stream_id,
              max_levels |-> unwrap_or(max_levels, DefaultMaxLevels)]
    IN /\ Goto(t, NextDefinition([L EXCEPT !.defs = <<d>>]))
       /\ Started(L, stream_id)

SubscribeWs(t) ==
    /\ impl = "ws"
    /\ CanStart(t)
    /\ \E c \in NameableClients, stream_id \in NameableStreams, symbol \in Symbols,
          view \in Views :
        subscribe(t, c, stream_id, symbol, view.data_type, view.max_levels)
    /\ UNCHANGED <<impl, callers, registry_vars, sim, hb, retired, order_book_vars>>

RECURSIVE Definitions(_)
Definitions(stream_definitions) ==
    IF stream_definitions = <<>> THEN <<>>
    ELSE LET x == Head(stream_definitions)
         IN <<[symbol |-> x[1], data_type |-> x[2], max_levels |-> x[3],
               stream_id |-> format_stream_id(x[1], x[2], x[3])]>>
            \o Definitions(Tail(stream_definitions))

subscribe_to_streams(t, c, stream_definitions) ==
    LET L == NewCall("subscribe",
                     [client_id |-> c, stream_definitions |-> stream_definitions])
    IN /\ Goto(t, NextDefinition([L EXCEPT !.defs = Definitions(stream_definitions)]))
       /\ Started(L, 0)

SubscribeToStreams(t) ==
    /\ impl = "sse"
    /\ CanStart(t)
    /\ \E c \in NameableClients, stream_definitions \in StreamDefinitionLists :
        subscribe_to_streams(t, c, stream_definitions)
    /\ UNCHANGED <<impl, callers, registry_vars, sim, hb, retired, order_book_vars>>

\* initialize_symbol: a new book replaces whatever the map holds
initialize_symbol(t) ==
    /\ tasks[t].pc = "sub_init"
    /\ ~order_books_locked(t, tasks[t].symbol)
    /\ books' = Append(books, SampleBook(tasks[t].symbol))
    /\ order_books' = MapInsert(order_books, tasks[t].symbol, Len(books) + 1)
    /\ Goto(t, [tasks[t] EXCEPT !.pc = "sub_push"])
    /\ UNCHANGED <<impl, callers, subscriptions, clients, client_streams, channels,
                   sim, hb, counts, retired, order_book_vars>>

SubscribePush(t) ==
    /\ tasks[t].pc = "sub_push"
    /\ ~subscriptions_locked(tasks[t].symbol)
    /\ LET L == tasks[t]
           max_levels == IF impl = "ws" THEN L.args.max_levels ELSE Some(L.max_levels)
           sub == Subscription(L.stream_id, L.symbol, L.data_type, max_levels,
                               L.client_id)
       IN /\ subscriptions' = entry_push(subscriptions, L.symbol, sub)
          /\ counts' = [counts EXCEPT !.unsubscribed =
                            { u \in @ : ~(/\ u.client_id = L.client_id
                                          /\ u.stream_id = L.stream_id) }]
    /\ Goto(t, [tasks[t] EXCEPT !.pc = IF impl = "ws" THEN "sub_get" ELSE "sub_track"])
    /\ UNCHANGED <<impl, callers, books, order_books, clients, client_streams, channels,
                   sim, hb, retired, order_book_vars>>

SubscribeTrack(t) ==
    /\ tasks[t].pc = "sub_track"
    /\ client_streams' = entry_push(client_streams, tasks[t].client_id,
                                    tasks[t].stream_id)
    /\ Goto(t, [tasks[t] EXCEPT !.pc = "sub_get"])
    /\ UNCHANGED <<impl, callers, books, order_books, subscriptions, clients, channels,
                   sim, hb, counts, retired, order_book_vars>>

\* one definition is done: Ok(()) after the last one, else the loop goes on
\* to the next definition
FinishDefinition(t, L) ==
    IF L.defs = <<>> THEN Return(t, L, "Ok")
    ELSE Goto(t, NextDefinition(L))

\* order_books.get(&symbol) and clients.get(&client_id)
SubscribeGet(t) ==
    /\ tasks[t].pc = "sub_get"
    /\ IF tasks[t].symbol \in DOMAIN order_books /\ tasks[t].client_id \in DOMAIN clients
       THEN Goto(t, [tasks[t] EXCEPT !.pc = "sub_project",
                                     !.book = order_books[tasks[t].symbol]])
       ELSE FinishDefinition(t, tasks[t])
    /\ UNCHANGED <<impl, callers, registry_vars, sim, hb, counts, retired, order_book_vars>>

\* order_book_ref.read().await, and the bids of the projection
SubscribeProject(t) ==
    /\ tasks[t].pc = "sub_project"
    /\ LET b == tasks[t].book
       IN /\ ~write_locked(books[b])
          /\ books' = [books EXCEPT ![b].readers = @ + 1]
          /\ Goto(t, [tasks[t] EXCEPT !.pc = "sub_asks",
                                      !.version = MarketDataUpdate(tasks[t].data_type,
                                          tasks[t].max_levels, b, books[b].sequence, 0)])
    /\ UNCHANGED <<impl, callers, order_books, subscriptions, clients, client_streams,
                   channels, sim, hb, counts, retired, order_book_vars>>

\* the asks of the projection; the read guard is dropped
SubscribeAsks(t) ==
    /\ tasks[t].pc = "sub_asks"
    /\ LET b == tasks[t].book
       IN /\ books' = [books EXCEPT ![b].readers = @ - 1]
          /\ Goto(t, [tasks[t] EXCEPT !.pc = "sub_sequence",
                                      !.version.asks = books[b].sequence])
    /\ UNCHANGED <<impl, callers, order_books, subscriptions, clients, client_streams,
                   channels, sim, hb, counts, retired, order_book_vars>>

\* order_book_ref.read().await and get_sequence()
SubscribeSequence(t) ==
    /\ tasks[t].pc = "sub_sequence"
    /\ ~write_locked(books[tasks[t].book])
    /\ Goto(t, [tasks[t] EXCEPT !.pc = "sub_send",
                                !.seq = books[tasks[t].book].sequence])
    /\ UNCHANGED <<impl, callers, registry_vars, sim, hb, counts, retired, order_book_vars>>

\* the initial snapshot is dropped instead of sent
snapshot_send_skipped(chs, ch, message) == chs

snapshot_send(chs, ch, message) == send(chs, ch, message)

SubscribeSend(t) ==
    /\ tasks[t].pc = "sub_send"
    /\ LET L == tasks[t]
           ch == clients[L.client_id]
           message == MarketData(L.stream_id, L.symbol, L.version, L.seq, "subscribe", 0)
       IN /\ channels' = snapshot_send(channels, ch, message)
          /\ IF send_ok(channels, ch) THEN FinishDefinition(t, L)
             ELSE Return(t, L, "Err")
    /\ UNCHANGED <<impl, callers, books, order_books, subscriptions, clients, client_streams,
                   sim, hb, counts, retired, order_book_vars>>

\* ---- unsubscribe (ws)
unsubscribe(t, c, stream_id) ==
    LET L == NewCall("unsubscribe", [client_id |-> c, stream_id |-> stream_id])
    IN /\ Goto(t, [L EXCEPT !.pc = "unsub_iter", !.stream_id = stream_id])
       /\ Started(L, stream_id)

Unsubscribe(t) ==
    /\ impl = "ws"
    /\ CanStart(t)
    /\ \E c \in NameableClients, stream_id \in NameableStreams :
        unsubscribe(t, c, stream_id)
    /\ UNCHANGED <<impl, callers, registry_vars, sim, hb, retired, order_book_vars>>

UnsubscribeRetain(t) ==
    /\ tasks[t].pc = "unsub_iter"
    /\ \E s \in DOMAIN subscriptions \ tasks[t].visited :
        LET kept == retain_not_stream(subscriptions[s], tasks[t].client_id,
                                      tasks[t].stream_id)
        IN /\ ~subscriptions_locked(s)
           /\ subscriptions' = [subscriptions EXCEPT ![s] = kept]
           /\ IF Len(kept) # Len(subscriptions[s])
              THEN /\ Return(t, tasks[t], TRUE)
                   /\ counts' = [counts EXCEPT !.unsubscribed =
                                     @ \cup {Unsubscribed(tasks[t].client_id,
                                                          tasks[t].stream_id)}]
              ELSE /\ Goto(t, [tasks[t] EXCEPT !.todo = Todo(tasks[t]),
                                               !.visited = @ \cup {s}])
                   /\ UNCHANGED counts
    /\ UNCHANGED <<impl, callers, books, order_books, clients, client_streams, channels,
                   sim, hb, retired, order_book_vars>>

UnsubscribeEnd(t) ==
    /\ tasks[t].pc = "unsub_iter"
    /\ (Todo(tasks[t]) \cap DOMAIN subscriptions) \subseteq tasks[t].visited
    /\ Return(t, tasks[t], FALSE)
    /\ UNCHANGED <<impl, callers, registry_vars, sim, hb, counts, retired, order_book_vars>>

\* a tick's send: a failed send is logged only
tick_send_skipped(chs, ch, message) == chs

tick_send(chs, ch, message) == send(chs, ch, message)

\* the tick gives up the rest of the symbol's subscriptions when a send fails
sim_after_send_aborts(L, ok) ==
    IF ok THEN [L EXCEPT !.pc = "sim_sub", !.i = @ + 1, !.client_id = 0]
    ELSE [L EXCEPT !.pc = "sim_next", !.visited = @ \cup {L.symbol}, !.i = 0,
                   !.client_id = 0]

\* an Err of send is logged; the loop goes on to the next subscription
sim_after_send(L, ok) == [L EXCEPT !.pc = "sim_sub", !.i = @ + 1, !.client_id = 0]

\* ---- the market simulation task
SimTick ==
    /\ sim.pc = "idle"
    /\ callers > 1
    /\ Activities < MaxActivities
    /\ sim' = [IdleSim EXCEPT !.pc = "sim_next", !.todo = DOMAIN order_books]
    /\ counts' = [counts EXCEPT !.ticks = @ + 1]
    /\ rlast' = NoCall
    /\ UNCHANGED <<impl, callers, registry_vars, tasks, hb, retired, order_book_vars>>

SimEnd ==
    /\ sim.pc = "sim_next"
    /\ sim.todo \subseteq sim.visited
    /\ sim' = IdleSim
    /\ rlast' = NoCall
    /\ UNCHANGED <<impl, callers, registry_vars, tasks, hb, counts, retired, order_book_vars>>

\* the iterator yields an entry of order_books (one present at the start of
\* the tick, or one inserted since), its Arc is cloned, the write lock is
\* taken and simulate_activity applies the first event of its batch; every
\* event raises the sequence counter
SimWrite ==
    /\ sim.pc = "sim_next"
    /\ \E s \in DOMAIN order_books \ sim.visited :
        LET b == order_books[s]
        IN /\ ~read_locked(books[b])
           /\ books' = [books EXCEPT ![b].writer = TRUE, ![b].sequence = @ + 1]
           /\ sim' = [sim EXCEPT !.pc = "sim_batch", !.symbol = s, !.book = b,
                                 !.events = 1]
    /\ rlast' = NoCall
    /\ UNCHANGED <<impl, callers, order_books, subscriptions, clients, client_streams, channels,
                   tasks, hb, counts, retired, order_book_vars>>

\* one more event of the batch
SimEvent ==
    /\ sim.pc = "sim_batch"
    /\ sim.events < MaxBatch
    /\ books' = [books EXCEPT ![sim.book].sequence = @ + 1]
    /\ sim' = [sim EXCEPT !.events = @ + 1]
    /\ rlast' = NoCall
    /\ UNCHANGED <<impl, callers, order_books, subscriptions, clients, client_streams, channels,
                   tasks, hb, counts, retired, order_book_vars>>

\* the write guard lives on to the end of the loop body
write_guard_kept(book) == [book EXCEPT !.boundaries = @ \cup {book.sequence}]

\* the block of the write guard ends: the guard is dropped, at a boundary
\* between two batches
write_guard_dropped(book) ==
    [book EXCEPT !.writer = FALSE, !.boundaries = @ \cup {book.sequence}]

\* simulate_activity returns and the write guard is dropped
SimUnlock ==
    /\ sim.pc = "sim_batch"
    /\ books' = [books EXCEPT ![sim.book] = write_guard_dropped(@)]
    /\ sim' = [sim EXCEPT !.pc = "sim_subs"]
    /\ rlast' = NoCall
    /\ UNCHANGED <<impl, callers, order_books, subscriptions, clients, client_streams, channels,
                   tasks, hb, counts, retired, order_book_vars>>

\* subscriptions.get(&symbol)
SimSubscriptions ==
    /\ sim.pc = "sim_subs"
    /\ sim' = IF sim.symbol \in DOMAIN subscriptions
              THEN [sim EXCEPT !.pc = "sim_sub", !.i = 1, !.clients0 = clients]
              ELSE [sim EXCEPT !.pc = "sim_next", !.visited = @ \cup {sim.symbol}]
    /\ rlast' = NoCall
    /\ UNCHANGED <<impl, callers, registry_vars, tasks, hb, counts, retired, order_book_vars>>

\* the next subscription of the symbol and clients.get(&subscription.client_id)
SimClient ==
    /\ sim.pc = "sim_sub"
    /\ sim' = IF sim.i > Len(subscriptions[sim.symbol])
              THEN [sim EXCEPT !.pc = "sim_next", !.visited = @ \cup {sim.symbol},
                               !.i = 0]
              ELSE IF subscriptions[sim.symbol][sim.i].client_id \in DOMAIN clients
              THEN [sim EXCEPT !.pc = "sim_send",
                               !.client_id = subscriptions[sim.symbol][sim.i].client_id]
              ELSE [sim EXCEPT !.i = @ + 1]
    /\ rlast' = NoCall
    /\ UNCHANGED <<impl, callers, registry_vars, tasks, hb, counts, retired, order_book_vars>>

\* the projection and the sequence are read (nothing but this task writes a
\* book) and the message is sent; a failed send is logged only
SimSend ==
    /\ sim.pc = "sim_send"
    /\ ~write_locked(books[sim.book])
    /\ LET subscription == subscriptions[sim.symbol][sim.i]
           data == MarketDataUpdate(subscription.data_type, subscription.max_levels,
                                    sim.book, books[sim.book].sequence,
                                    books[sim.book].sequence)
           message == MarketData(subscription.stream_id, sim.symbol, data,
                                 books[sim.book].sequence, "simulation", counts.ticks)
       IN channels' = tick_send(channels, clients[sim.client_id], message)
    /\ sim' = sim_after_send(sim, send_ok(channels, clients[sim.client_id]))
    /\ rlast' = NoCall
    /\ UNCHANGED <<impl, callers, books, order_books, subscriptions, clients, client_streams,
                   tasks, hb, counts, retired, order_book_vars>>

\* ---- the heartbeat task
\* the heartbeat reaches the client twice
heartbeat_send_twice(chs, ch, message) == send(send(chs, ch, message), ch, message)

\* client.send(heartbeat.clone())
heartbeat_send(chs, ch, message) == tick_send(chs, ch, message)

HeartbeatTick ==
    /\ hb.pc = "idle"
    /\ callers > 1
    /\ Activities < MaxActivities
    /\ hb' = [IdleHb EXCEPT !.pc = "hb_loop", !.todo = DOMAIN clients,
                            !.clients0 = clients, !.channels0 = Len(channels)]
    /\ counts' = [counts EXCEPT !.beats = @ + 1]
    /\ rlast' = NoCall
    /\ UNCHANGED <<impl, callers, registry_vars, tasks, sim, retired, order_book_vars>>

HeartbeatSend ==
    /\ hb.pc = "hb_loop"
    /\ \E c \in DOMAIN clients \ hb.visited :
        /\ channels' = heartbeat_send(channels, clients[c], HeartBeat(counts.beats))
        /\ hb' = [hb EXCEPT !.visited = @ \cup {c}]
    /\ rlast' = NoCall
    /\ UNCHANGED <<impl, callers, books, order_books, subscriptions, clients, client_streams,
                   tasks, sim, counts, retired, order_book_vars>>

HeartbeatEnd ==
    /\ hb.pc = "hb_loop"
    /\ (hb.todo \cap DOMAIN clients) \subseteq hb.visited
    /\ hb' = IdleHb
    /\ rlast' = NoCall
    /\ UNCHANGED <<impl, callers, registry_vars, tasks, sim, counts, retired, order_book_vars>>

\* ---- the receiving end of a channel is dropped
CloseChannel ==
    /\ callers = 1 => \A t \in Tasks : tasks[t].pc = "idle"
    /\ \E ch \in DOMAIN channels :
        /\ channels[ch].open
        /\ channels' = [channels EXCEPT ![ch].open = FALSE]
    /\ rlast' = NoCall
    /\ UNCHANGED <<impl, callers, books, order_books, subscriptions, clients, client_streams,
                   tasks, sim, hb, counts, retired, order_book_vars>>

TaskStep(t) ==
    \/ RegisterClient(t)
    \/ RegisterStreams(t)
    \/ UnregisterClientWs(t)
    \/ UnregisterRetain(t)
    \/ UnregisterPrune(t)
    \/ UnregisterClientSse(t)
    \/ RemoveSubscriptionRetain(t)
    \/ RemoveSubscriptionPrune(t)
    \/ UnregisterClients(t)
    \/ SubscribeWs(t)
    \/ SubscribeToStreams(t)
    \/ initialize_symbol(t)
    \/ SubscribePush(t)
    \/ SubscribeTrack(t)
    \/ SubscribeGet(t)
    \/ SubscribeProject(t)
    \/ SubscribeAsks(t)
    \/ SubscribeSequence(t)
    \/ SubscribeSend(t)
    \/ Unsubscribe(t)
    \/ UnsubscribeRetain(t)
    \/ UnsubscribeEnd(t)

SimStep ==
    \/ SimTick \/ SimWrite \/ SimEvent \/ SimUnlock
    \/ SimSubscriptions \/ SimClient \/ SimSend \/ SimEnd

HeartbeatStep == HeartbeatTick \/ HeartbeatSend \/ HeartbeatEnd

\* the calls of the manager run one at a time, each to its return; the two
\* periodic tasks, which write no map of the registry, are not scheduled
NextSequential ==
    \/ \E t \in Tasks : TaskStep(t)
    \/ CloseChannel

SpecSequential == InitSequential /\ [][NextSequential]_vars

\* the tasks of the runtime run in parallel, step by step
NextConcurrent ==
    \/ \E t \in Tasks : TaskStep(t)
    \/ SimStep
    \/ HeartbeatStep
    \/ CloseChannel

SpecConcurrent == InitConcurrent /\ [][NextConcurrent]_vars

\* ------------------------------------------------------------ sse connection
\* One connection of the SSE server (backend-sse/src/sse_handler.rs): the
\* handler registers a new client, sends the connection info, subscribes the
\* streams of the query and hands the receiver to an SSEStream, which the
\* transport polls until it drops it.  The handler calls the manager as
\* task 1; task 2 is another holder of the manager that calls
\* unregister_client for the client.  connection.read counts the messages
\* the stream has taken from the channel.
book_state_vars == <<orders, bids_by_price, asks_by_price, sequence, arrivals, last,
                     generator>>

HandlerTask == 1

OtherTask == 2

\* SSEMessage::ConnectionInfo
ConnectionInfo(symbols) ==
    [type |-> "ConnectionInfo", supported_symbols |-> symbols, by |-> "handler", tick |-> 0]

\* the request is accepted: Uuid::new_v4() is a client id not used before
SseAccepted ==
    [handler |-> "sse", pc |-> "register", client_id |-> 1, channel |-> 0, read |-> 0,
     unregistered |-> FALSE]

InitSseConnection ==
    /\ StartedWith(DefaultSymbols)
    /\ impl = "sse"
    /\ callers = MaxTasks
    /\ NoClient
    /\ connection = SseAccepted

\* mpsc::unbounded_channel() and register_client(client_id, tx)
SseRegister ==
    /\ connection.pc = "register"
    /\ register_client(HandlerTask, connection.client_id)
    /\ connection' = [connection EXCEPT !.pc = "connection_info",
                                        !.channel = Len(channels) + 1]
    /\ UNCHANGED <<impl, callers, books, order_books, subscriptions, client_streams,
                   sim, hb, retired, book_state_vars>>

\* send_connection_info: get_symbols, clients.get and send
SendConnectionInfo ==
    /\ connection.pc = "connection_info"
    /\ tasks[HandlerTask].pc = "idle"
    /\ channels' = IF connection.client_id \in DOMAIN clients
                   THEN send(channels, clients[connection.client_id],
                             ConnectionInfo(DOMAIN order_books))
                   ELSE channels
    /\ connection' = [connection EXCEPT !.pc = "subscribe"]
    /\ UNCHANGED <<impl, callers, books, order_books, subscriptions, clients,
                   client_streams, tasks, sim, hb, counts, retired, rlast,
                   book_state_vars>>

\* the streams of the query, or the default stream when it names none
DefaultStreams == <<<<1, "MBP", DefaultMaxLevels>>>>

\* parse_streams and subscribe_to_streams
SseSubscribe ==
    /\ connection.pc = "subscribe"
    /\ \E query \in StreamDefinitionLists \cup {<<>>} :
        subscribe_to_streams(HandlerTask, connection.client_id,
                             IF query = <<>> THEN DefaultStreams ELSE query)
    /\ connection' = [connection EXCEPT !.pc = "respond"]
    /\ UNCHANGED <<impl, callers, registry_vars, sim, hb, retired, book_state_vars>>

\* Ok: the receiver goes into the SSEStream of the response; Err: the
\* handler returns a status and the receiver is dropped
SseRespond ==
    /\ connection.pc = "respond"
    /\ tasks[HandlerTask].pc = "idle"
    /\ IF tasks[HandlerTask].ret = "Ok"
       THEN /\ connection' = [connection EXCEPT !.pc = "streaming"]
            /\ UNCHANGED channels
       ELSE /\ connection' = [connection EXCEPT !.pc = "rejected"]
            /\ channels' = [channels EXCEPT ![connection.channel].open = FALSE]
    /\ UNCHANGED <<impl, callers, books, order_books, subscriptions, clients,
                   client_streams, tasks, sim, hb, counts, retired, rlast,
                   book_state_vars>>

\* the sender of the channel is in no entry of clients
SenderDropped(ch) == \A c \in DOMAIN clients : clients[c] # ch

\* poll_next, Poll::Ready(Some(message)): the message becomes an event
PollNextSome ==
    /\ connection.pc = "streaming"
    /\ connection.read < Len(channels[connection.channel].queue)
    /\ connection' = [connection EXCEPT !.read = @ + 1]
    /\ UNCHANGED <<manager_state, book_state_vars>>

\* poll_next, Poll::Ready(None): the channel is empty and has no sender;
\* unregister_client is called
PollNextNone ==
    /\ connection.pc = "streaming"
    /\ connection.read = Len(channels[connection.channel].queue)
    /\ SenderDropped(connection.channel)
    /\ tasks[HandlerTask].pc = "idle"
    /\ unregister_client_sse(HandlerTask, connection.client_id)
    /\ connection' = [connection EXCEPT !.pc = "ending"]
    /\ UNCHANGED <<impl, callers, books, order_books, subscriptions, clients, channels,
                   sim, hb, retired, book_state_vars>>

\* poll_next returns Poll::Ready(None): the response ends
SseStreamEnds ==
    /\ connection.pc = "ending"
    /\ tasks[HandlerTask].pc = "idle"
    /\ connection' = [connection EXCEPT !.pc = "ended"]
    /\ UNCHANGED <<manager_state, book_state_vars>>

\* the client disconnects: the transport drops the response body, and with
\* it the SSEStream and its receiver (SSEStream has no Drop of its own)
TransportDrops ==
    /\ connection.pc = "streaming"
    /\ connection' = [connection EXCEPT !.pc = "dropped"]
    /\ channels' = [channels EXCEPT ![connection.channel].open = FALSE]
    /\ UNCHANGED <<impl, callers, books, order_books, subscriptions, clients,
                   client_streams, tasks, sim, hb, counts, retired, rlast,
                   book_state_vars>>

\* unregister_client (a public method of the manager) called by another
\* holder of the manager, once; the backend itself has no such call, and
\* without one the sender in clients keeps Poll::Ready(None) from occurring
ExternalUnregister ==
    /\ connection.pc = "streaming"
    /\ ~connection.unregistered
    /\ tasks[OtherTask].pc = "idle"
    /\ unregister_client_sse(OtherTask, connection.client_id)
    /\ connection' = [connection EXCEPT !.unregistered = TRUE]
    /\ UNCHANGED <<impl, callers, books, order_books, subscriptions, clients, channels,
                   sim, hb, retired, book_state_vars>>

\* the steps of the manager inside the calls of the SSE backend
SseCallStep(t) ==
    \/ RegisterStreams(t)
    \/ initialize_symbol(t)
    \/ SubscribePush(t)
    \/ SubscribeTrack(t)
    \/ SubscribeGet(t)
    \/ SubscribeProject(t)
    \/ SubscribeAsks(t)
    \/ SubscribeSequence(t)
    \/ SubscribeSend(t)
    \/ RemoveSubscriptionRetain(t)
    \/ RemoveSubscriptionPrune(t)
    \/ UnregisterClients(t)

\* what the handler and the stream of the connection do themselves
SseHandlerStep ==
    \/ SseRegister
    \/ SendConnectionInfo
    \/ SseSubscribe
    \/ SseRespond
    \/ PollNextSome
    \/ PollNextNone
    \/ SseStreamEnds
    \/ SseCallStep(HandlerTask)

NextSseConnection ==
    \/ SseHandlerStep
    \/ SseCallStep(OtherTask)
    \/ ExternalUnregister
    \/ TransportDrops

SpecSseConnection == InitSseConnection /\ [][NextSseConnection]_vars

\* ------------------------------------------------------------ websocket connection
\* One connection of the WebSocket server (backend/src/websocket_handler.rs,
\* handle_connection): the incoming task registers the client, writes the
\* welcome message, spawns the outgoing task and handles the messages of
\* the peer until the socket ends or a close frame arrives; the outgoing
\* task writes what the channel receives until a write fails or the channel
\* has no sender.  Both call unregister_client when their loop is left.
\* The incoming task calls the manager as task 1, the outgoing one as
\* task 2.  connection.inbox holds what the peer has sent and the incoming
\* task has not read; connection.read counts the messages the outgoing task
\* has taken from the channel; connection.late records that a subscribe
\* was begun after the outgoing task had ended.
OutgoingTask == 2

\* a frame of the peer
Frame(kind, stream_id, symbol) == [kind |-> kind, stream_id |-> stream_id, symbol |-> symbol]

\* what the peer sends: text frames that parse into a ClientMessage, a text
\* frame that does not, a binary frame and a close frame
PeerFrames ==
    { Frame("Subscribe", 1, s) : s \in Symbols }
    \cup { Frame(k, 1, 0) : k \in {"Unsubscribe"} }
    \cup { Frame(k, 0, 0) : k \in {"Ping", "Invalid", "Binary", "Close"} }

\* ServerMessage::Subscribed, Unsubscribed and Error
Response(type, code, stream_id) ==
    [type |-> type, code |-> code, stream_id |-> stream_id, by |-> "handler", tick |-> 0]

\* the connection is accepted: Uuid::new_v4() is a client id not used before
WsAccepted ==
    [handler |-> "ws", incoming |-> "register", outgoing |-> "none", client_id |-> 1,
     channel |-> 0, socket |-> "open", inbox |-> <<>>, frames |-> 0, read |-> 0,
     beats |-> 0, late |-> FALSE]

InitWsConnection ==
    /\ StartedWith(DefaultSymbols)
    /\ impl = "ws"
    /\ callers = MaxTasks
    /\ NoClient
    /\ connection = WsAccepted

\* get_client_sender and send: nothing is sent for a client not in clients
respond(chs, client_id, message) ==
    IF client_id \in DOMAIN clients THEN send(chs, clients[client_id], message) ELSE chs

\* the peer sends a frame
PeerSends ==
    /\ connection.socket = "open"
    /\ connection.incoming # "done"
    /\ connection.frames < MaxFrames
    /\ \E frame \in PeerFrames :
        connection' = [connection EXCEPT !.inbox = Append(@, frame), !.frames = @ + 1]
    /\ UNCHANGED <<manager_state, book_state_vars>>

\* the connection breaks or the peer closes it without a close frame: what
\* was received is still read, then the read ends (None or Err), and a
\* write may fail
ConnectionEnds ==
    /\ connection.socket = "open"
    /\ connection.incoming # "done"
    /\ connection' = [connection EXCEPT !.socket = "ended"]
    /\ UNCHANGED <<manager_state, book_state_vars>>

\* the heartbeat task sends a HeartBeat to the client while clients has it
HeartbeatReaches ==
    /\ connection.beats < MaxBeats
    /\ connection.client_id \in DOMAIN clients
    /\ ~clients_locked(0, connection.client_id)
    /\ channels' = send(channels, clients[connection.client_id],
                        HeartBeat(connection.beats + 1))
    /\ connection' = [connection EXCEPT !.beats = @ + 1]
    /\ UNCHANGED <<impl, callers, books, order_books, subscriptions, clients,
                   client_streams, tasks, sim, hb, counts, retired, rlast,
                   book_state_vars>>

\* mpsc::unbounded_channel() and register_client(client_id, tx)
WsRegister ==
    /\ connection.incoming = "register"
    /\ register_client(HandlerTask, connection.client_id)
    /\ connection' = [connection EXCEPT !.incoming = "welcome",
                                        !.channel = Len(channels) + 1]
    /\ UNCHANGED <<impl, callers, books, order_books, subscriptions, client_streams,
                   sim, hb, retired, book_state_vars>>

\* the welcome message is written to the socket (a failure is logged) and
\* the outgoing task is spawned
WsWelcome ==
    /\ connection.incoming = "welcome"
    /\ connection' = [connection EXCEPT !.incoming = "next", !.outgoing = "recv"]
    /\ UNCHANGED <<manager_state, book_state_vars>>

\* ws_receiver.next() gives a frame
Received(kind) ==
    /\ connection.incoming = "next"
    /\ connection.inbox # <<>>
    /\ Head(connection.inbox).kind = kind

\* ClientMessage::Subscribe: subscribe(...).await
WsSubscribe ==
    /\ Received("Subscribe")
    /\ subscribe(HandlerTask, connection.client_id, Head(connection.inbox).stream_id,
                 Head(connection.inbox).symbol, "MBP", Some(MaxSubLevels))
    /\ connection' = [connection EXCEPT !.incoming = "subscribed", !.inbox = Tail(@),
                                        !.late = @ \/ connection.outgoing = "done"]
    /\ UNCHANGED <<impl, callers, registry_vars, sim, hb, retired, book_state_vars>>

\* Ok: Subscribed is sent; Err: Error 500 is sent
WsSubscribed ==
    /\ connection.incoming = "subscribed"
    /\ tasks[HandlerTask].pc = "idle"
    /\ channels' = respond(channels, connection.client_id,
                           IF tasks[HandlerTask].ret = "Ok"
                           THEN Response("Subscribed", 0, rlast.args.stream_id)
                           ELSE Response("Error", 500, rlast.args.stream_id))
    /\ connection' = [connection EXCEPT !.incoming = "next"]
    /\ UNCHANGED <<impl, callers, books, order_books, subscriptions, clients,
                   client_streams, tasks, sim, hb, counts, retired, rlast,
                   book_state_vars>>

\* ClientMessage::Unsubscribe: unsubscribe(client_id, &stream_id)
WsUnsubscribe ==
    /\ Received("Unsubscribe")
    /\ unsubscribe(HandlerTask, connection.client_id, Head(connection.inbox).stream_id)
    /\ connection' = [connection EXCEPT !.incoming = "unsubscribed", !.inbox = Tail(@)]
    /\ UNCHANGED <<impl, callers, registry_vars, sim, hb, retired, book_state_vars>>

\* success: Unsubscribed is sent; otherwise Error 404
WsUnsubscribed ==
    /\ connection.incoming = "unsubscribed"
    /\ tasks[HandlerTask].pc = "idle"
    /\ channels' = respond(channels, connection.client_id,
                           IF tasks[HandlerTask].ret
                           THEN Response("Unsubscribed", 0, tasks[HandlerTask].stream_id)
                           ELSE Response("Error", 404, tasks[HandlerTask].stream_id))
    /\ connection' = [connection EXCEPT !.incoming = "next"]
    /\ UNCHANGED <<impl, callers, books, order_books, subscriptions, clients,
                   client_streams, tasks, sim, hb, counts, retired, rlast,
                   book_state_vars>>

\* ClientMessage::Ping: a HeartBeat is sent
WsPing ==
    /\ Received("Ping")
    /\ channels' = respond(channels, connection.client_id, Response("HeartBeat", 0, 0))
    /\ connection' = [connection EXCEPT !.inbox = Tail(@)]
    /\ UNCHANGED <<impl, callers, books, order_books, subscriptions, clients,
                   client_streams, tasks, sim, hb, counts, retired, rlast,
                   book_state_vars>>

\* a text frame that is no ClientMessage: handle_message fails, Error 400
WsInvalid ==
    /\ Received("Invalid")
    /\ channels' = respond(channels, connection.client_id, Response("Error", 400, 0))
    /\ connection' = [connection EXCEPT !.inbox = Tail(@)]
    /\ UNCHANGED <<impl, callers, books, order_books, subscriptions, clients,
                   client_streams, tasks, sim, hb, counts, retired, rlast,
                   book_state_vars>>

\* Ping, Pong, Binary and raw frames are logged
WsIgnored ==
    /\ Received("Binary")
    /\ connection' = [connection EXCEPT !.inbox = Tail(@)]
    /\ UNCHANGED <<manager_state, book_state_vars>>

\* the handler has left its loop and returns
incoming_loop_left_returns(conn) == [conn EXCEPT !.incoming = "done"]

\* the handler has left its loop with the call of unregister_client ahead
incoming_loop_left(conn) == [conn EXCEPT !.incoming = "unregister"]

\* Message::Close: break; the close handshake ends the socket
WsClose ==
    /\ Received("Close")
    /\ connection' = [incoming_loop_left(connection) EXCEPT !.socket = "ended"]
    /\ UNCHANGED <<manager_state, book_state_vars>>

\* next() gives an error (break) or None once the socket has ended and what
\* was received has been read
WsEnd ==
    /\ connection.incoming = "next"
    /\ connection.inbox = <<>>
    /\ connection.socket = "ended"
    /\ connection' = incoming_loop_left(connection)
    /\ UNCHANGED <<manager_state, book_state_vars>>

\* unregister_client after the loop of the incoming task
WsUnregister ==
    /\ connection.incoming = "unregister"
    /\ unregister_client_ws(HandlerTask, connection.client_id)
    /\ connection' = [connection EXCEPT !.incoming = "unregistering"]
    /\ UNCHANGED <<impl, callers, books, order_books, subscriptions, client_streams,
                   channels, sim, hb, retired, book_state_vars>>

\* handle_connection returns
WsReturn ==
    /\ connection.incoming = "unregistering"
    /\ tasks[HandlerTask].pc = "idle"
    /\ connection' = [connection EXCEPT !.incoming = "done"]
    /\ UNCHANGED <<manager_state, book_state_vars>>

\* rx.recv() gives a message
OutRecv ==
    /\ connection.outgoing = "recv"
    /\ connection.read < Len(channels[connection.channel].queue)
    /\ connection' = [connection EXCEPT !.outgoing = "write", !.read = @ + 1]
    /\ UNCHANGED <<manager_state, book_state_vars>>

\* rx.recv() gives None: the channel is empty and has no sender
OutRecvNone ==
    /\ connection.outgoing = "recv"
    /\ connection.read = Len(channels[connection.channel].queue)
    /\ SenderDropped(connection.channel)
    /\ connection' = [connection EXCEPT !.outgoing = "unregister"]
    /\ UNCHANGED <<manager_state, book_state_vars>>

\* ws_sender.send(...) succeeds
OutWrite ==
    /\ connection.outgoing = "write"
    /\ connection' = [connection EXCEPT !.outgoing = "recv"]
    /\ UNCHANGED <<manager_state, book_state_vars>>

\* ws_sender.send(...) fails on a socket that has ended: break
OutWriteFails ==
    /\ connection.outgoing = "write"
    /\ connection.socket = "ended"
    /\ connection' = [connection EXCEPT !.outgoing = "unregister"]
    /\ UNCHANGED <<manager_state, book_state_vars>>

\* unregister_client after the loop of the outgoing task
OutUnregister ==
    /\ connection.outgoing = "unregister"
    /\ unregister_client_ws(OutgoingTask, connection.client_id)
    /\ connection' = [connection EXCEPT !.outgoing = "unregistering"]
    /\ UNCHANGED <<impl, callers, books, order_books, subscriptions, client_streams,
                   channels, sim, hb, retired, book_state_vars>>

\* the outgoing task ends: rx is dropped
OutReturn ==
    /\ connection.outgoing = "unregistering"
    /\ tasks[OutgoingTask].pc = "idle"
    /\ connection' = [connection EXCEPT !.outgoing = "done"]
    /\ channels' = [channels EXCEPT ![connection.channel].open = FALSE]
    /\ UNCHANGED <<impl, callers, books, order_books, subscriptions, clients,
                   client_streams, tasks, sim, hb, counts, retired, rlast,
                   book_state_vars>>

\* the steps of the manager inside the calls of the WebSocket backend
WsCallStep(t) ==
    \/ initialize_symbol(t)
    \/ SubscribePush(t)
    \/ SubscribeGet(t)
    \/ SubscribeProject(t)
    \/ SubscribeAsks(t)
    \/ SubscribeSequence(t)
    \/ SubscribeSend(t)
    \/ UnsubscribeRetain(t)
    \/ UnsubscribeEnd(t)
    \/ UnregisterRetain(t)
    \/ UnregisterPrune(t)

\* what the incoming task does
IncomingStep ==
    \/ WsRegister
    \/ WsWelcome
    \/ WsSubscribe
    \/ WsSubscribed
    \/ WsUnsubscribe
    \/ WsUnsubscribed
    \/ WsPing
    \/ WsInvalid
    \/ WsIgnored
    \/ WsClose
    \/ WsEnd
    \/ WsUnregister
    \/ WsReturn
    \/ WsCallStep(HandlerTask)

\* what the outgoing task does
OutgoingStep ==
    \/ OutRecv
    \/ OutRecvNone
    \/ OutWrite
    \/ OutWriteFails
    \/ OutUnregister
    \/ OutReturn
    \/ WsCallStep(OutgoingTask)

NextWsConnection ==
    \/ IncomingStep
    \/ OutgoingStep
    \/ PeerSends
    \/ ConnectionEnds
    \/ HeartbeatReaches

SpecWsConnection == InitWsConnection /\ [][NextWsConnection]_vars

\* ------------------------------------------------------------ properties
\* every (side, price, index) at which a ladder holds an order id
LadderPositions(b) ==
    UNION { UNION { { <<s, p, i>> : i \in 1..Len(side_price_map(b, s)[p]) }
                    : p \in DOMAIN side_price_map(b, s) }
            : s \in Sides }

IdAt(b, pos) == side_price_map(b, pos[1])[pos[2]][pos[3]]

PositionsOf(b, id) == { pos \in LadderPositions(b) : IdAt(b, pos) = id }

RestingAt(b, side, price) ==
    { id \in DOMAIN b.orders :
        b.orders[id].side = side /\ b.orders[id].price = price }

\* C1: in every reachable book, each id stored in the ladder of side S at
\* price P is an order of the index with side S and price P, and each
\* indexed order id occurs at exactly one position of exactly one slot.
C1_LadderMatchesIndex ==
    /\ \A pos \in LadderPositions(Book) :
        IdAt(Book, pos) \in RestingAt(Book, pos[1], pos[2])
    /\ \A id \in DOMAIN orders : Cardinality(PositionsOf(Book, id)) = 1

\* an add_order replaced a resting order while another order rests
C1_Witness ==
    /\ last.op = "add_order"
    /\ last.existed
    /\ <<last.prev.side, last.prev.price>> # <<last.order.side, last.order.price>>
    /\ Cardinality(DOMAIN orders) >= 2

\* C2: a fresh book has sequence 0, and every add_order (also of an id that
\* is already resting), every update_order with quantity > 0 of a resting id
\* and every remove_order of a resting id raises sequence by exactly 1.
C2_SequencePlusOne ==
    /\ last.op = "new" => sequence = 0
    /\ last.op = "add_order" => sequence = last.seq_before + 1
    /\ (last.op \in {"update_order", "remove_order"} /\ last.existed)
           => sequence = last.seq_before + 1

\* C3: add_order of an id X that is already resting leaves exactly one
\* resting order X, with the new price, quantity and side, at one position of
\* the new slot, and no X in the slot of the old price and side.
C3_Upsert ==
    (last.op = "add_order" /\ last.existed) =>
        LET X == last.order.id
            old_map == side_price_map(Book, last.prev.side)
        IN /\ X \in DOMAIN orders
           /\ orders[X] = last.order
           /\ Cardinality(PositionsOf(Book, X)) = 1
           /\ \A pos \in PositionsOf(Book, X) :
                pos[1] = last.order.side /\ pos[2] = last.order.price
           /\ (<<last.prev.side, last.prev.price>>
                   # <<last.order.side, last.order.price>>
               /\ last.prev.price \in DOMAIN old_map)
              => \A i \in 1..Len(old_map[last.prev.price]) :
                    old_map[last.prev.price][i] # X

\* X moved to another price and side, the old slot still holds another order
C3_Witness ==
    /\ last.op = "add_order"
    /\ last.existed
    /\ last.prev.side # last.order.side
    /\ last.prev.price # last.order.price
    /\ last.prev.quantity # last.order.quantity
    /\ last.prev.price \in DOMAIN side_price_map(Book, last.prev.side)

\* C4: from every reachable book and for every order id, resting or not,
\* update_order(id, 0) and remove_order(id) give the same book (index, both
\* ladders, sequence) and the same return value.
C4_UpdateZeroIsRemove ==
    \A id \in OrderIds : update_order(Book, id, 0) = remove_order(Book, id)

\* an update_order(id, 0) of a resting id has run and left orders resting
C4_Witness ==
    /\ last.op = "update_order"
    /\ last.new_quantity = 0
    /\ last.existed
    /\ last.ret
    /\ last.order_id \notin DOMAIN orders
    /\ DOMAIN orders # {}

\* C5: update_order and remove_order of an id that is not in the book return
\* false and leave index, ladders and sequence as they were.
C5_UnknownIdIsNoOp ==
    /\ \A id \in OrderIds \ DOMAIN orders :
        /\ remove_order(Book, id) = [book |-> Book, ret |-> FALSE]
        /\ \A q \in 0..MaxQty :
            update_order(Book, id, q) = [book |-> Book, ret |-> FALSE]
    /\ (last.op \in {"update_order", "remove_order"} /\ ~last.existed)
           => (~last.ret /\ sequence = last.seq_before)

\* an update_order with quantity > 0 of an unknown id on a non-empty book
C5_Witness ==
    /\ last.op = "update_order"
    /\ last.new_quantity > 0
    /\ ~last.existed
    /\ ~last.ret
    /\ DOMAIN orders # {}

\* C6: no ladder holds a price key with an empty order list: a price is a
\* key of the ladder of a side exactly when an order of that side rests at it.
C6_NoEmptyLevel ==
    \A s \in Sides :
        /\ \A p \in DOMAIN side_price_map(Book, s) :
            side_price_map(Book, s)[p] # <<>>
        /\ \A p \in Prices :
            p \in DOMAIN side_price_map(Book, s) <=> RestingAt(Book, s, p) # {}

\* a removal emptied a price level while the other level of the side remains
C6_Witness ==
    /\ last.op \in {"remove_order", "update_order"}
    /\ last.ret
    /\ last.order_id \notin DOMAIN orders
    /\ last.prev.price \notin DOMAIN side_price_map(Book, last.prev.side)
    /\ DOMAIN side_price_map(Book, last.prev.side) # {}

\* sum of the quantity fields of levels[1..i]
RECURSIVE RunningSum(_, _)
RunningSum(levels, i) ==
    IF i = 0 THEN 0 ELSE levels[i].quantity + RunningSum(levels, i - 1)

MbpSideShape(levels, side, K) ==
    /\ Len(levels) <= K
    /\ \A i \in 1..(Len(levels) - 1) :
        IF side = "Bid"
        THEN levels[i].price > levels[i + 1].price
        ELSE levels[i].price < levels[i + 1].price
    /\ \A i \in 1..Len(levels) :
        levels[i].total_quantity = RunningSum(levels, i)

\* C7: each side returned by get_mbp_data(K) has at most K entries, bid
\* prices strictly decreasing and ask prices strictly increasing, and every
\* entry's total_quantity is the running sum of the quantities up to it.
C7_MbpShape ==
    last.op = "get_mbp_data" =>
        /\ MbpSideShape(last.data.bids, "Bid", last.max_levels)
        /\ MbpSideShape(last.data.asks, "Ask", last.max_levels)

\* two bid levels returned for K = 2, the best one holding two orders
C7_Witness ==
    /\ last.op = "get_mbp_data"
    /\ last.max_levels = 2
    /\ Len(last.data.bids) = 2
    /\ last.data.bids[1].order_count = 2
    /\ last.data.bids[2].total_quantity > last.data.bids[2].quantity

\* the prices at which an order of the side rests, read from the index
RestingPrices(b, side) ==
    { b.orders[id].price : id \in { x \in DOMAIN b.orders : b.orders[x].side = side } }

Better(side, p, q) == IF side = "Bid" THEN p > q ELSE p < q

RECURSIVE QuantityOf(_, _)
QuantityOf(b, ids) ==
    IF ids = {} THEN 0
    ELSE LET id == CHOOSE x \in ids : TRUE
         IN b.orders[id].quantity + QuantityOf(b, ids \ {id})

Min(a, b) == IF a <= b THEN a ELSE b

MbpSideBest(levels, side, K) ==
    /\ Len(levels) = Min(K, Cardinality(RestingPrices(Book, side)))
    /\ \A i \in 1..Len(levels) :
        /\ levels[i].price \in RestingPrices(Book, side)
        /\ Cardinality({ p \in RestingPrices(Book, side) :
                           Better(side, p, levels[i].price) }) = i - 1
        /\ levels[i].quantity =
               QuantityOf(Book, RestingAt(Book, side, levels[i].price))
        /\ levels[i].order_count =
               Cardinality(RestingAt(Book, side, levels[i].price))

\* C8: get_mbp_data(K) returns, for each side, exactly the min(K, number of
\* price levels) best price levels, each with the summed quantity and the
\* number of the orders resting at that price.
C8_MbpBestLevels ==
    last.op = "get_mbp_data" =>
        /\ MbpSideBest(last.data.bids, "Bid", last.max_levels)
        /\ MbpSideBest(last.data.asks, "Ask", last.max_levels)

\* K = 1 cuts two bid levels to the best one, which aggregates two orders of
\* different quantities
C8_Witness ==
    /\ last.op = "get_mbp_data"
    /\ last.max_levels = 1
    /\ Cardinality(RestingPrices(Book, "Bid")) = 2
    /\ Len(last.data.bids) = 1
    /\ last.data.bids[1].order_count = 2
    /\ last.data.bids[1].quantity = 3

MboSideBounded(levels, K) ==
    /\ Cardinality({ levels[i].price : i \in 1..Len(levels) }) <= K
    /\ (Len(levels) <= K \/ Len(levels) <= 3 * K)

\* C9: each side returned by get_mbo_data(K) holds orders of at most K
\* distinct prices and at most 3K orders.
C9_MboBounded ==
    last.op = "get_mbo_data" =>
        /\ MboSideBounded(last.data.bids, last.max_levels)
        /\ MboSideBounded(last.data.asks, last.max_levels)

\* four bids rest at the best price and K = 1 returns three of them
C9_Witness ==
    /\ last.op = "get_mbo_data"
    /\ last.max_levels = 1
    /\ Len(last.data.bids) = 3
    /\ \E p \in Prices : Cardinality(RestingAt(Book, "Bid", p)) = 4

ArrivalIndex(id) == CHOOSE i \in 1..Len(arrivals) : arrivals[i] = id

\* price priority, then the order of the most recent add_order
Precedes(b, side, x, y) ==
    \/ Better(side, b.orders[x].price, b.orders[y].price)
    \/ /\ b.orders[x].price = b.orders[y].price
       /\ ArrivalIndex(x) < ArrivalIndex(y)

RECURSIVE SortedOrders(_, _, _)
SortedOrders(b, side, ids) ==
    IF ids = {} THEN <<>>
    ELSE LET first == CHOOSE x \in ids :
                          \A y \in ids \ {x} : Precedes(b, side, x, y)
         IN <<MBOLevel(b.orders[first])>>
            \o SortedOrders(b, side, ids \ {first})

FullSorted(side) ==
    SortedOrders(Book, side, { x \in DOMAIN orders : orders[x].side = side })

IsPrefix(s, t) == Len(s) <= Len(t) /\ s = SubSeq(t, 1, Len(s))

\* C10: each side returned by get_mbo_data(K) is a prefix of the side's
\* resting orders sorted by price priority and, within a price, by the order
\* of their most recent add_order; this holds after every update_order with
\* quantity > 0 too, which therefore moves no order within its level.
C10_MboSortedPrefix ==
    /\ \A side \in Sides, K \in 0..MaxLevels :
        IsPrefix(get_mbo_side(Book, side, K), FullSorted(side))
    /\ last.op = "get_mbo_data" =>
        /\ IsPrefix(last.data.bids, FullSorted("Bid"))
        /\ IsPrefix(last.data.asks, FullSorted("Ask"))

\* an update_order changed the quantity of the first order of a level that
\* holds a later arrival behind it
C10_Witness ==
    /\ last.op = "update_order"
    /\ last.new_quantity > 0
    /\ last.existed
    /\ last.prev.quantity # last.new_quantity
    /\ LET slot == side_price_map(Book, last.prev.side)[last.prev.price]
       IN Len(slot) >= 2 /\ slot[1] = last.order_id

\* the prices at which an order of the index rests on a side
IndexPrices(side) == { orders[id].price : id \in { i \in DOMAIN orders : orders[i].side = side } }

\* C11: BestBidAsk returns the maximum price among the resting bid orders and
\* the minimum price among the resting ask orders, and a side's value is
\* absent exactly when no order rests on that side.
C11_BestBidAsk ==
    last.op = "get_best_bid_ask" =>
        /\ last.ret.best_bid.some <=> IndexPrices("Bid") # {}
        /\ last.ret.best_ask.some <=> IndexPrices("Ask") # {}
        /\ last.ret.best_bid.some =>
               /\ last.ret.best_bid.value \in IndexPrices("Bid")
               /\ \A p \in IndexPrices("Bid") : p <= last.ret.best_bid.value
        /\ last.ret.best_ask.some =>
               /\ last.ret.best_ask.value \in IndexPrices("Ask")
               /\ \A p \in IndexPrices("Ask") : last.ret.best_ask.value <= p

\* the bid side holds two prices, the ask side is empty
C11_Witness ==
    /\ last.op = "get_best_bid_ask"
    /\ Cardinality(IndexPrices("Bid")) = 2
    /\ IndexPrices("Ask") = {}
    /\ last.ret.best_bid = Some(MaxPrice)
    /\ last.ret.best_ask = None

\* C12: with both sides non-empty SpreadInfo returns spread = best ask - best
\* bid and mid = (best bid + best ask) / 2, the spread carrying its sign (a
\* crossed book gives a negative spread); with either side empty all three
\* values are absent.
C12_SpreadInfo ==
    last.op = "get_spread_info" =>
        IF IndexPrices("Bid") # {} /\ IndexPrices("Ask") # {}
        THEN LET bid == SetMax(IndexPrices("Bid"))
                 ask == SetMin(IndexPrices("Ask"))
             IN /\ last.ret.spread = Some(ask - bid)
                /\ last.ret.mid_price.some
                /\ last.ret.mid_price.value.num * 2
                       = (bid + ask) * last.ret.mid_price.value.den
                /\ last.ret.spread_bps.some
           ELSE /\ last.ret.spread = None
                /\ last.ret.mid_price = None
                /\ last.ret.spread_bps = None

\* a crossed book: the best bid lies above the best ask
C12_Witness ==
    /\ last.op = "get_spread_info"
    /\ IndexPrices("Bid") # {} /\ IndexPrices("Ask") # {}
    /\ SetMax(IndexPrices("Bid")) > SetMin(IndexPrices("Ask"))
    /\ last.ret.spread.value < 0

\* ------------------------------------------------------------ properties of the stream manager
\* the stream definitions of the subscribe call that returned last
SubscribedDefinitions ==
    IF impl = "ws"
    THEN <<[symbol |-> rlast.args.symbol, data_type |-> rlast.args.data_type,
            stream_id |-> rlast.args.stream_id,
            max_levels |-> unwrap_or(rlast.args.max_levels, DefaultMaxLevels)]>>
    ELSE Definitions(rlast.args.stream_definitions)

\* the subscriptions of a map that a client owns, as (symbol, index) pairs
OwnedBy(subs, client_id) ==
    { <<s, i>> \in UNION { {s} \X (1..Len(subs[s])) : s \in DOMAIN subs } :
          subs[s][i].client_id = client_id }

RegisteredOpen(reg, client_id) ==
    /\ client_id \in DOMAIN reg.clients
    /\ reg.channels[reg.clients[client_id]].open

\* C13: a subscribe for a registered client whose channel is open returns Ok,
\* whether the symbol was seen or not; on return the symbol has a book, the
\* subscription is recorded under the symbol, and the client's channel has
\* gained exactly one MarketData message per requested stream, of that stream
\* id and of the requested data type, before any tick has run.
C13_SubscribeSnapshot ==
    (rlast.op = "subscribe" /\ RegisteredOpen(rlast.pre, rlast.args.client_id)) =>
        LET c == rlast.args.client_id
            defs == SubscribedDefinitions
            before == rlast.pre.channels[rlast.pre.clients[c]].queue
            after == channels[rlast.pre.clients[c]].queue
        IN /\ rlast.ret = "Ok"
           /\ \A i \in 1..Len(defs) :
                /\ defs[i].symbol \in DOMAIN order_books
                /\ defs[i].symbol \in DOMAIN subscriptions
                /\ \E j \in 1..Len(subscriptions[defs[i].symbol]) :
                       subscriptions[defs[i].symbol][j] =
                           [stream_id |-> defs[i].stream_id, symbol |-> defs[i].symbol,
                            data_type |-> defs[i].data_type,
                            max_levels |-> defs[i].max_levels, client_id |-> c]
           /\ Len(after) = Len(before) + Len(defs)
           /\ SubSeq(after, 1, Len(before)) = before
           /\ \A i \in 1..Len(defs) :
                LET message == after[Len(before) + i]
                IN /\ message.type = "MarketData"
                   /\ message.stream_id = defs[i].stream_id
                   /\ message.symbol = defs[i].symbol
                   /\ message.data.format = defs[i].data_type

\* a registered client with an open channel subscribed to an unseen symbol
C13_Witness ==
    /\ rlast.op = "subscribe"
    /\ RegisteredOpen(rlast.pre, rlast.args.client_id)
    /\ SubscribedDefinitions[1].symbol \notin DOMAIN rlast.pre.order_books
    /\ SubscribedDefinitions[1].data_type = "MBO"
    /\ rlast.ret = "Ok"

\* C14: a subscribe whose client id is not registered returns a failure.
C14_UnregisteredSubscribeFails ==
    (rlast.op = "subscribe" /\ rlast.args.client_id \notin DOMAIN rlast.pre.clients) =>
        rlast.ret = "Err"

\* C15: when unregister_client(c) returns, no subscription of any symbol is
\* owned by c, and c has no entry in clients and none in client_streams.
C15_UnregisterRemovesAll ==
    rlast.op = "unregister_client" =>
        /\ OwnedBy(subscriptions, rlast.args.client_id) = {}
        /\ rlast.args.client_id \notin DOMAIN clients
        /\ rlast.args.client_id \notin DOMAIN client_streams

\* C16: an unregister_client of a client id that has no channel entry (it was
\* unregistered before, or never registered) leaves clients, subscriptions,
\* client_streams and order_books as they were.
C16_UnregisterIdempotent ==
    (rlast.op = "unregister_client"
        /\ rlast.args.client_id \notin DOMAIN rlast.pre.clients) =>
        /\ clients = rlast.pre.clients
        /\ subscriptions = rlast.pre.subscriptions
        /\ client_streams = rlast.pre.client_streams
        /\ order_books = rlast.pre.order_books

\* the subscriptions of a map that a client owns under one stream id
StreamOwned(subs, client_id, stream_id) ==
    { p \in OwnedBy(subs, client_id) : subs[p[1]][p[2]].stream_id = stream_id }

\* C18: unsubscribe(c, s) returns true exactly when a subscription of c with
\* stream id s existed; on return none remains under any symbol; when none
\* existed the registry is unchanged.
C18_Unsubscribe ==
    rlast.op = "unsubscribe" =>
        LET existed == StreamOwned(rlast.pre.subscriptions, rlast.args.client_id,
                                   rlast.args.stream_id) # {}
        IN /\ rlast.ret = existed
           /\ StreamOwned(subscriptions, rlast.args.client_id, rlast.args.stream_id) = {}
           /\ ~existed => /\ subscriptions = rlast.pre.subscriptions
                          /\ clients = rlast.pre.clients
                          /\ order_books = rlast.pre.order_books

\* C19: when an unsubscribe or an unregister_client returns, subscriptions
\* holds no symbol with an empty list, and every book is still in order_books.
C19_NoEmptySubscriptionList ==
    rlast.op \in {"unsubscribe", "unregister_client"} =>
        /\ \A s \in DOMAIN subscriptions : subscriptions[s] # <<>>
        /\ \A s \in DOMAIN rlast.pre.order_books :
               s \in DOMAIN order_books /\ order_books[s] = rlast.pre.order_books[s]

\* the messages a channel received after the unregister_client that removed
\* its sender had returned
AfterRetirement(ch) ==
    { channels[ch].queue[i] : i \in (retired[ch] + 1)..Len(channels[ch].queue) }

\* C17: once unregister_client(c) has returned, neither a simulation tick nor
\* a heartbeat tick pushes a message into the channel that was registered for
\* c, however the ticks interleave with the call.
C17_NoPushAfterUnregister ==
    \A ch \in DOMAIN retired :
        \A message \in AfterRetirement(ch) :
            message.by \notin {"simulation", "heartbeat"}

\* a heartbeat tick that began while the client was registered is still
\* running after the client's unregister_client has returned
C17_Witness ==
    /\ hb.pc = "hb_loop"
    /\ \E c \in hb.todo \ hb.visited :
        /\ c \notin DOMAIN clients
        /\ \E ch \in DOMAIN retired : channels[ch].open

\* C20: no symbol ever has a second OrderBook created for it.
C20_OneBookPerSymbol ==
    \A i, j \in DOMAIN books : books[i].symbol = books[j].symbol => i = j

\* every message of every channel, with its channel and its position
Messages ==
    UNION { { [ch |-> ch, i |-> i, message |-> channels[ch].queue[i]] :
                  i \in 1..Len(channels[ch].queue) } : ch \in DOMAIN channels }

\* C21: in every MarketData message, of a subscribe or of a simulation tick,
\* the sequence field is the value the book's counter had when the projection
\* of the message was taken.
C21_SequenceOfProjection ==
    \A m \in Messages :
        m.message.type = "MarketData" => m.message.sequence = m.message.data.version

\* C22: the projection of every MarketData message shows its book at a
\* boundary between batches of events (never a state in which a batch was
\* being applied), and its bids and its asks show the same state of the book.
C22_ProjectionAtBoundary ==
    \A m \in Messages :
        m.message.type = "MarketData" =>
            /\ m.message.data.asks = m.message.data.version
            /\ m.message.data.version \in books[m.message.data.book].boundaries

\* a subscribe holds the read guard between the two sides of its projection
\* while the simulation task, at this book, waits for the write lock
C22_Witness ==
    \E t \in Tasks :
        /\ tasks[t].pc = "sub_asks"
        /\ sim.pc = "sim_next"
        /\ order_books[tasks[t].symbol] = tasks[t].book
        /\ tasks[t].symbol \notin sim.visited

\* the subscriptions among the first n of a list that ask for what sub asks
SameAsk(list, n, sub) == { j \in 1..n : list[j] = sub }

\* the messages of a channel that the current simulation tick sent for a
\* subscription of the symbol it is serving
TickMessages(ch, sub) ==
    { i \in 1..Len(channels[ch].queue) :
        LET message == channels[ch].queue[i]
        IN /\ message.type = "MarketData"
           /\ message.by = "simulation" /\ message.tick = counts.ticks
           /\ message.symbol = sim.symbol
           /\ message.stream_id = sub.stream_id
           /\ message.data.format = sub.data_type
           /\ message.data.max_levels = sub.max_levels
           /\ message.data.version = books[sim.book].sequence
           /\ message.sequence = books[sim.book].sequence }

\* a client that has been registered under one open channel ever since the
\* simulation task began to serve the symbol
ServedClient(client_id) ==
    /\ client_id \in DOMAIN sim.clients0
    /\ client_id \in DOMAIN clients
    /\ clients[client_id] = sim.clients0[client_id]
    /\ channels[clients[client_id]].open

\* C23: while a tick serves a symbol, its book has been mutated (a batch of
\* at least one event has been applied and the write guard is dropped), and
\* every subscription of the symbol that the tick has passed, whose client
\* is registered, has received exactly one MarketData message of this tick
\* with the subscription's stream id, data type and depth, projected from
\* the book as the batch left it.
C23_TickDelivery ==
    sim.pc = "sim_sub" =>
        /\ sim.events >= 1
        /\ ~books[sim.book].writer
        /\ books[sim.book].sequence \in books[sim.book].boundaries
        /\ \A j \in 1..(sim.i - 1) :
             LET list == subscriptions[sim.symbol]
                 sub == list[j]
             IN ServedClient(sub.client_id) =>
                    Cardinality(TickMessages(clients[sub.client_id], sub))
                        = Cardinality(SameAsk(list, sim.i - 1, sub))

\* a tick has served both subscriptions of a symbol, one of a registered
\* client and one whose client is not registered
C23_Witness ==
    /\ sim.pc = "sim_sub"
    /\ sim.i = 3
    /\ \E j \in 1..2 : ServedClient(subscriptions[sim.symbol][j].client_id)
    /\ \E j \in 1..2 : subscriptions[sim.symbol][j].client_id \notin DOMAIN clients

\* a client that was registered when the heartbeat tick began and has been
\* registered under the same open channel ever since
BeatClient(client_id) ==
    /\ client_id \in DOMAIN hb.clients0
    /\ client_id \in DOMAIN clients
    /\ clients[client_id] = hb.clients0[client_id]
    /\ channels[clients[client_id]].open

\* the HeartBeat messages of the current heartbeat tick in a channel
BeatMessages(ch) ==
    { i \in 1..Len(channels[ch].queue) :
        /\ channels[ch].queue[i].type = "HeartBeat"
        /\ channels[ch].queue[i].tick = counts.beats }

\* a client, registered when the task began to serve, whose channel is closed
ClosedClient(clients0, client_id) ==
    client_id \in DOMAIN clients0 /\ ~channels[clients0[client_id]].open

\* with a closed channel among those served, every other subscription passed
\* (simulation) and every other client visited (heartbeat) has its message
DeliveryDespiteFailure ==
    /\ (sim.pc = "sim_sub"
          /\ \E j \in 1..(sim.i - 1) :
                 ClosedClient(sim.clients0, subscriptions[sim.symbol][j].client_id)) =>
            \A j \in 1..(sim.i - 1) :
                LET list == subscriptions[sim.symbol]
                    sub == list[j]
                IN ServedClient(sub.client_id) =>
                       Cardinality(TickMessages(clients[sub.client_id], sub))
                           = Cardinality(SameAsk(list, sim.i - 1, sub))
    /\ (hb.pc = "hb_loop" /\ \E c \in hb.visited : ClosedClient(hb.clients0, c)) =>
            \A c \in hb.visited :
                BeatClient(c) => Cardinality(BeatMessages(clients[c])) = 1

\* the step of a tick in which a send fails: the tick goes on with the next
\* subscription or client, and the registry is left as it was
FailedSendStep ==
    /\ (sim.pc = "sim_send" /\ sim' # sim /\ ~channels[clients[sim.client_id]].open) =>
          /\ sim'.pc = "sim_sub" /\ sim'.i = sim.i + 1
          /\ UNCHANGED <<clients, subscriptions, client_streams, channels>>
    /\ \A c \in DOMAIN clients :
          (hb.pc = "hb_loop" /\ c \in hb'.visited \ hb.visited
              /\ ~channels[clients[c]].open) =>
             /\ hb'.pc = "hb_loop"
             /\ UNCHANGED <<clients, subscriptions, client_streams, channels>>

\* C24: a send to a closed channel during a simulation tick or a heartbeat
\* tick does not stop the tick: the other subscriptions and clients it serves
\* get their messages, and the step leaves the failing client's channel entry
\* and its subscriptions in the registry.
C24_SendFailureIgnored == []DeliveryDespiteFailure /\ [][FailedSendStep]_vars

\* a simulation tick has passed the subscription of a client whose channel
\* is closed and has delivered to the next one; both clients are registered
C24_Witness ==
    /\ sim.pc = "sim_sub" /\ sim.i = 3
    /\ LET list == subscriptions[sim.symbol]
       IN /\ ClosedClient(sim.clients0, list[1].client_id)
          /\ \A i \in 1..Len(channels[sim.clients0[list[1].client_id]].queue) :
                 channels[sim.clients0[list[1].client_id]].queue[i].by # "simulation"
          /\ ServedClient(list[2].client_id)
          /\ TickMessages(clients[list[2].client_id], list[2]) # {}
          /\ list[1].client_id \in DOMAIN clients

\* the HeartBeat messages of the n-th heartbeat tick in a channel
BeatMessagesOf(ch, n) ==
    { i \in 1..Len(channels[ch].queue) :
        channels[ch].queue[i].type = "HeartBeat" /\ channels[ch].queue[i].tick = n }

\* the channels whose sender a clients map holds
Senders(m) == { m[c] : c \in DOMAIN m }

\* C25: a heartbeat tick pushes one HeartBeat message, never two, to a
\* client; when its loop is done, every client that has been registered
\* (under an open channel) since the tick began has been visited and holds
\* exactly one message of the tick, with or without subscriptions; a channel
\* whose client was not registered when the tick began, nor since, gets none.
C25_HeartbeatToEveryClient ==
    /\ \A ch \in DOMAIN channels : \A n \in 1..counts.beats :
           Cardinality(BeatMessagesOf(ch, n)) <= 1
    /\ hb.pc = "hb_loop" =>
          /\ \A c \in hb.visited :
                 BeatClient(c) => Cardinality(BeatMessages(clients[c])) = 1
          /\ (hb.todo \cap DOMAIN clients) \subseteq hb.visited =>
                 \A c \in ClientIds : BeatClient(c) => c \in hb.visited
          /\ \A ch \in 1..hb.channels0 :
                 ch \notin (Senders(hb.clients0) \cup Senders(clients)) =>
                     BeatMessages(ch) = {}

\* the loop of a heartbeat tick is done; it has served two clients, one of
\* which has no subscription
C25_Witness ==
    /\ hb.pc = "hb_loop"
    /\ (hb.todo \cap DOMAIN clients) \subseteq hb.visited
    /\ Cardinality(hb.visited) = 2
    /\ \A c \in hb.visited : BeatClient(c) /\ BeatMessages(clients[c]) # {}
    /\ \E c \in hb.visited : OwnedBy(subscriptions, c) = {}

\* C26: when an unregister_client(c) has run while a subscribe for c was in
\* flight and both have returned, the registry holds no subscription of c,
\* no channel entry for c and no tracking entry for c.
C26_UnregisterRacesSubscribe ==
    \A c \in counts.raced :
        (\A t \in Tasks : tasks[t].pc = "idle") =>
            /\ OwnedBy(subscriptions, c) = {}
            /\ c \notin DOMAIN clients
            /\ c \notin DOMAIN client_streams

\* C27: when register_client returns for a client id that was registered,
\* the clients map holds the new sender for the id, and the sender it held
\* before is in no entry of the registry (clients is the only map that holds
\* senders); the other clients keep their senders.
C27_ReRegisterReplaces ==
    (rlast.op = "register_client" /\ rlast.args.client_id \in DOMAIN rlast.pre.clients) =>
        LET c == rlast.args.client_id
        IN /\ clients[c] = rlast.args.sender
           /\ rlast.pre.clients[c] \notin Senders(clients)
           /\ DOMAIN clients = DOMAIN rlast.pre.clients
           /\ \A d \in DOMAIN clients \ {c} : clients[d] = rlast.pre.clients[d]

\* a second register_client of a registered client id has returned
C27_Witness ==
    /\ rlast.op = "register_client"
    /\ rlast.args.client_id \in DOMAIN rlast.pre.clients
    /\ rlast.pre.clients[rlast.args.client_id] # rlast.args.sender
    /\ OwnedBy(subscriptions, rlast.args.client_id) # {}

\* the activity generated on an empty book adds an order
EmptyBookAdds ==
    generator.pc = "execute" /\ DOMAIN orders = {} =>
        generator.activity.value.activity_type = "Add"

Applied(activity) ==
    IF activity.activity_type = "Add"
    THEN /\ activity.order_id \in DOMAIN orders
         /\ orders[activity.order_id] =
                Order(activity.order_id, activity.price.value, activity.quantity.value,
                      activity.side.value)
    ELSE IF activity.activity_type = "Update"
    THEN /\ activity.order_id \in DOMAIN orders
         /\ orders[activity.order_id].quantity = activity.quantity.value
    ELSE activity.order_id \notin DOMAIN orders

C30_TickSymbolSet ==
    sim.pc = "sim_batch" => sim.symbol \in sim.todo \ sim.visited

\* every level of the ladder but the one at the far end has a level one
\* tick further
OneTickApart(ladder) ==
    \A p \in DOMAIN ladder :
        \/ p + 1 \in DOMAIN ladder
        \/ p = SetMax(DOMAIN ladder)

\* C31: initialize_with_sample_data on a new book leaves 30 bid levels and 30
\* ask levels of one order each, the levels of a side one tick apart, every
\* bid price below every ask price, and the sequence counter at 60
C31_SampleBook ==
    last.op = "initialize_with_sample_data" /\ last.returned =>
        /\ Cardinality(DOMAIN bids_by_price) = 30
        /\ Cardinality(DOMAIN asks_by_price) = 30
        /\ \A p \in DOMAIN bids_by_price : Len(bids_by_price[p]) = 1
        /\ \A p \in DOMAIN asks_by_price : Len(asks_by_price[p]) = 1
        /\ OneTickApart(bids_by_price)
        /\ OneTickApart(asks_by_price)
        /\ \A p \in DOMAIN bids_by_price : \A a \in DOMAIN asks_by_price : p < a
        /\ sequence = 60

\* the call has run with two different quantities drawn and an inexact price
C31_Witness ==
    /\ last.op = "initialize_with_sample_data"
    /\ last.returned
    /\ last.rand.error # 0
    /\ \E i \in DOMAIN orders : \E j \in DOMAIN orders :
           orders[i].quantity # orders[j].quantity
    /\ Cardinality(DOMAIN orders) = 60

\* C32: after any sequence of subscribe and unsubscribe calls, no two
\* subscriptions of one client carry the same stream id, whether the client
\* supplied the id or the manager derived it
C32_StreamIdsDistinct ==
    (\A t \in Tasks : tasks[t].pc = "idle") =>
        \A c \in ClientIds :
            \A x \in OwnedBy(subscriptions, c) : \A y \in OwnedBy(subscriptions, c) :
                subscriptions[x[1]][x[2]].stream_id = subscriptions[y[1]][y[2]].stream_id
                    => x = y

\* the snapshots of a stream id that a channel holds
Snapshots(q, stream_id) ==
    { k \in DOMAIN q : /\ q[k].type = "MarketData"
                       /\ q[k].by = "subscribe"
                       /\ q[k].stream_id = stream_id }

\* C35: in every channel the MarketData messages of one stream id, the
\* snapshot of the subscribe included, carry sequence numbers that do not
\* decrease, however the subscribe and the ticks interleave (stated for a
\* stream id subscribed once, so that its messages are those of one
\* subscription)
C35_SequenceMonotonic ==
    \A ch \in DOMAIN channels :
        LET q == channels[ch].queue
        IN \A i \in DOMAIN q : \A j \in DOMAIN q :
               (/\ i < j
                /\ q[i].type = "MarketData"
                /\ q[j].type = "MarketData"
                /\ q[i].stream_id = q[j].stream_id
                /\ q[i].symbol = q[j].symbol
                /\ Cardinality(Snapshots(q, q[i].stream_id)) = 1)
               => q[i].sequence <= q[j].sequence

\* the elements of a Vec
Elements(v) == { v[i] : i \in DOMAIN v }

\* C36: while no call of the manager is running, every subscription in the
\* subscriptions map belongs to a client that has an entry in clients and,
\* in the manager that tracks streams, its stream id is in the client's
\* entry of client_streams
C36_SubscriptionsOwned ==
    (\A t \in Tasks : tasks[t].pc = "idle") =>
        \A s \in DOMAIN subscriptions : \A i \in DOMAIN subscriptions[s] :
            LET sub == subscriptions[s][i]
            IN /\ sub.client_id \in DOMAIN clients
               /\ impl = "sse" =>
                      /\ sub.client_id \in DOMAIN client_streams
                      /\ sub.stream_id \in Elements(client_streams[sub.client_id])

\* the send of a tick: the message of subscription sim.i goes to the channel
\* that clients holds for its client
TickSends == sim.pc = "sim_send" /\ sim'.pc # "sim_send"

\* C37: a tick pushes MarketData of stream id s into the channel of client c,
\* and into no other, only while c owns a subscription with stream id s, and
\* never in a tick begun after unsubscribe(c, s) returned true
C37_OnlyOwnedStreams ==
    [][TickSends =>
           LET sub == subscriptions[sim.symbol][sim.i]
               ch == clients[sub.client_id]
           IN /\ StreamOwned(subscriptions, sub.client_id, sub.stream_id) # {}
              /\ \A other \in DOMAIN channels \ {ch} : channels'[other] = channels[other]
              /\ \A u \in counts.unsubscribed :
                     (u.client_id = sub.client_id /\ u.stream_id = sub.stream_id)
                     => u.ticks >= counts.ticks]_vars

\* the subscriptions a call of subscribe (subscribe_to_streams) attempts
Attempted(args) ==
    IF impl = "ws" THEN {[symbol |-> args.symbol, stream_id |-> args.stream_id]}
    ELSE LET defs == Definitions(args.stream_definitions)
         IN { [symbol |-> defs[i].symbol, stream_id |-> defs[i].stream_id] :
                  i \in DOMAIN defs }

\* the number of subscriptions of the client with the stream id under the symbol
Stored(subs, symbol, client_id, stream_id) ==
    IF symbol \in DOMAIN subs
    THEN Cardinality({ i \in DOMAIN subs[symbol] :
                           /\ subs[symbol][i].client_id = client_id
                           /\ subs[symbol][i].stream_id = stream_id })
    ELSE 0

\* the number of times the client's owned streams name the stream id
Tracked(streams, client_id, stream_id) ==
    IF client_id \in DOMAIN streams
    THEN Cardinality({ i \in DOMAIN streams[client_id] :
                           streams[client_id][i] = stream_id })
    ELSE 0

\* C38: when subscribe returns a failure, the subscription it attempted (one
\* of them, for a list of definitions) has been added neither to the set of
\* the symbol nor to the streams the client owns
C38_FailedSubscribeLeavesRegistry ==
    (rlast.op = "subscribe" /\ rlast.ret = "Err") =>
        \E a \in Attempted(rlast.args) :
            LET c == rlast.args.client_id
            IN /\ Stored(subscriptions, a.symbol, c, a.stream_id)
                      = Stored(rlast.pre.subscriptions, a.symbol, c, a.stream_id)
               /\ Tracked(client_streams, c, a.stream_id)
                      = Tracked(rlast.pre.client_streams, c, a.stream_id)

\* the steps left to a tick that has started and to a call that has begun
SimContinue == sim.pc # "idle" /\ SimStep

TaskContinue(t) == tasks[t].pc # "idle" /\ TaskStep(t)

\* the calls that hold the read lock of a book the tick has yet to write
ReadersAhead ==
    { t \in Tasks : /\ tasks[t].pc = "sub_asks"
                    /\ \E s \in DOMAIN order_books \ sim.visited :
                           order_books[s] = tasks[t].book }

\* C39: a tick that has started is never in a circular wait: in every state
\* either the tick can take its next step, or it waits for the write lock of
\* a book and a call that holds the read lock of that book can take its next
\* step, which releases it (the calls are finitely many and each takes
\* finitely many steps, so under fair scheduling the tick finishes its visit)
C39_TickNeverStuck ==
    sim.pc # "idle" =>
        (ENABLED SimContinue \/ \E t \in ReadersAhead : ENABLED TaskContinue(t))

\* the tick waits for the write lock of a book a subscribe reads, and holds
\* the entry of the book meanwhile
C39_Witness ==
    /\ sim.pc = "sim_next"
    /\ \E s \in DOMAIN order_books \ sim.visited : read_locked(books[order_books[s]])
    /\ \E ch \in DOMAIN channels : ~channels[ch].open

\* Vec::truncate(3 * K) without a width: K orders or fewer are always kept
CapExact(levels, K) == IF K >= Len(levels) THEN levels ELSE Truncate(levels, 3 * K)

\* C40: for every max_levels, those past (2^32 - 1) / 3 included,
\* get_mbo_data completes and each side is the orders of the first
\* max_levels levels capped at exactly 3 * max_levels
C40_MboCapExact ==
    /\ last.op # "panic"
    /\ last.op = "get_mbo_data" =>
           \A side \in Sides :
               (IF side = "Bid" THEN last.data.bids ELSE last.data.asks)
                   = CapExact(get_mbo_side_no_truncate(Book, side, last.max_levels),
                              last.max_levels)

\* the registry holds neither the channel nor a subscription of the client
Unregistered(client_id) ==
    /\ client_id \notin DOMAIN clients
    /\ client_id \notin DOMAIN client_streams
    /\ OwnedBy(subscriptions, client_id) = {}

\* C33: once the transport has dropped the event stream of a connected
\* client, unregister_client is called for it: either the connection still
\* has a step to take, or the registry holds nothing of the client
C33_DroppedStreamUnregisters ==
    connection.pc = "dropped" =>
        (ENABLED SseHandlerStep \/ Unregistered(connection.client_id))

\* both tasks of the connection have ended
BothTasksEnded == connection.incoming = "done" /\ connection.outgoing = "done"

\* an upper bound of the steps a call in progress still takes, a snapshot it
\* may send counted with the two steps (recv, write) of the outgoing task
CallSteps(L) ==
    CASE L.pc = "idle" -> 0
      [] L.pc \in {"unreg_iter", "unsub_iter"} -> 1 + Cardinality(Symbols \ L.visited)
      [] L.pc = "sub_init" -> 9
      [] L.pc = "sub_push" -> 8
      [] L.pc = "sub_get" -> 7
      [] L.pc = "sub_project" -> 6
      [] L.pc = "sub_asks" -> 5
      [] L.pc = "sub_sequence" -> 4
      [] L.pc = "sub_send" -> 3

MaxCallSteps == 9 + MaxSymbols

UnregisterCost == 2 + MaxCallSteps

FrameCost == 4 + MaxCallSteps

\* an upper bound of the steps the connection and its peer still take
Remaining ==
    LET c == connection
        unread == IF c.channel = 0 THEN 0 ELSE Len(channels[c.channel].queue) - c.read
    IN (MaxFrames - c.frames) * (FrameCost + 1)
       + (MaxBeats - c.beats) * 3
       + (IF c.socket = "open" THEN 1 ELSE 0)
       + Len(c.inbox) * FrameCost
       + 2 * unread
       + (CASE c.incoming = "register" -> UnregisterCost + 3
            [] c.incoming = "welcome" -> UnregisterCost + 2
            [] c.incoming = "next" -> UnregisterCost + 1
            [] c.incoming \in {"subscribed", "unsubscribed"} ->
                   UnregisterCost + 4 + CallSteps(tasks[HandlerTask])
            [] c.incoming = "unregister" -> UnregisterCost
            [] c.incoming = "unregistering" -> 1 + CallSteps(tasks[HandlerTask])
            [] c.incoming = "done" -> 0)
       + (CASE c.outgoing \in {"none", "recv"} -> UnregisterCost + 1
            [] c.outgoing = "write" -> UnregisterCost + 2
            [] c.outgoing = "unregister" -> UnregisterCost
            [] c.outgoing = "unregistering" -> 1 + CallSteps(tasks[OutgoingTask])
            [] c.outgoing = "done" -> 0)

\* after the end of the connection a task that has not ended can step, and
\* when both have ended the registry holds nothing of the client
EndedConnectionCleansUp ==
    /\ BothTasksEnded =>
           /\ Unregistered(connection.client_id)
           /\ \A t \in Tasks : tasks[t].pc = "idle"
    /\ (connection.socket = "ended" /\ ~BothTasksEnded) =>
           (ENABLED IncomingStep \/ ENABLED OutgoingStep)

\* C34: once a WebSocket connection has ended (close frame, read error, end
\* of input, failed write), both tasks of the connection end: one that has
\* not ended can step, and every step brings the end nearer; and when both
\* have ended the registry holds neither the channel nor a subscription of
\* the client, whatever was subscribed after the outgoing task had
\* unregistered it
C34_EndedConnectionCleansUp ==
    /\ []EndedConnectionCleansUp
    /\ [][Remaining' < Remaining /\ Remaining' >= 0]_vars

\* both tasks have ended, and a subscribe was handled after the outgoing
\* task had ended
C34_Witness == BothTasksEnded /\ connection.late
====
